---------------------------- MODULE Spec2Model ----------------------------
(***************************************************************************)
(* A model of the DeepThink chat client (src/machine_learning/DeepThink):  *)
(* the streaming extractor of process_message, the whole-response path of  *)
(* _process_completion, handle_assistant_response and the two file         *)
(* helpers create_file and apply_diff_edit.                                *)
(*                                                                         *)
(* Text is a sequence of one-character strings, so that splitting a text   *)
(* into tokens, trimming it and parsing it as JSON are computed character  *)
(* by character.                                                           *)
(***************************************************************************)
EXTENDS Integers, Sequences, FiniteSets, TLC

(***************************************************************************)
(* Characters and text helpers                                             *)
(***************************************************************************)

\* str.strip() and the JSON decoder's whitespace; the texts of this model
\* use the blank and the line feed only.
WS == {" ", "\n"}

Digit == {"0", "1", "2", "3", "4", "5", "6", "7", "8", "9"}

\* the character at position i of s, "" past the end
At(s, i) == IF i >= 1 /\ i <= Len(s) THEN s[i] ELSE ""

\* s[i..] (1-based), empty when i is past the end
From(s, i) == SubSeq(s, i, Len(s))

RECURSIVE SkipWs(_, _)
\* index of the first non-whitespace character of s at or after i
SkipWs(s, i) == IF At(s, i) \in WS THEN SkipWs(s, i + 1) ELSE i

\* token.strip().startswith("{")
StartsWithBrace(token) == At(token, SkipWs(token, 1)) = "{"

\* bool(token.strip())
HasVisibleText(token) == SkipWs(token, 1) <= Len(token)

\* s[i..] begins with the characters of w
HasPrefixAt(s, i, w) ==
    /\ i + Len(w) - 1 <= Len(s)
    /\ \A k \in 1..Len(w) : s[i + k - 1] = w[k]

(***************************************************************************)
(* json.loads: a recursive-descent decoder of the JSON grammar, as the     *)
(* standard decoder scans it (whitespace around the top-level value and    *)
(* inside containers, extra data after the value is an error).  Strings    *)
(* are scanned without escape sequences: no text of this model holds a     *)
(* backslash, and a backslash or control character inside a string is      *)
(* rejected.                                                               *)
(*                                                                         *)
(* A decoded value is a record [t, s, items]:                              *)
(*   t = "str" | "num" | "lit"  with the text in s                         *)
(*   t = "arr"                  with the elements in items                 *)
(*   t = "obj"                  with items = <<key1, val1, key2, val2..>>  *)
(***************************************************************************)

Val(t, s, items) == [t |-> t, s |-> s, items |-> items]

JSONDecodeError == Val("JSONDecodeError", <<>>, <<>>)

ParseFail == [ok |-> FALSE, pos |-> 0, val |-> JSONDecodeError]

ParseOk(pos, v) == [ok |-> TRUE, pos |-> pos, val |-> v]

RECURSIVE StringEnd(_, _)
\* index of the closing quote of the string whose text starts at i, 0 when
\* the string is unterminated or holds a character the decoder rejects
StringEnd(s, i) ==
    IF i > Len(s) THEN 0
    ELSE IF s[i] = "\"" THEN i
    ELSE IF s[i] \in {"\n", "\\"} THEN 0
    ELSE StringEnd(s, i + 1)

\* the string literal opening at s[i] = '"'
ParseString(s, i) ==
    LET e == StringEnd(s, i + 1)
    IN  IF At(s, i) = "\"" /\ e > 0
        THEN ParseOk(e + 1, Val("str", SubSeq(s, i + 1, e - 1), <<>>))
        ELSE ParseFail

RECURSIVE DigitsEnd(_, _)
\* index after the run of digits starting at i
DigitsEnd(s, i) == IF At(s, i) \in Digit THEN DigitsEnd(s, i + 1) ELSE i

\* NUMBER_RE = (-?(?:0|[1-9]\d*))(\.\d+)?([eE][-+]?\d+)?
\* index after the longest match at i, i itself when nothing matches
NumberEnd(s, i) ==
    LET j == IF At(s, i) = "-" THEN i + 1 ELSE i
        intEnd == IF At(s, j) = "0" THEN j + 1
                  ELSE IF At(s, j) \in Digit THEN DigitsEnd(s, j)
                  ELSE i
        fracEnd == IF At(s, intEnd) = "." /\ At(s, intEnd + 1) \in Digit
                   THEN DigitsEnd(s, intEnd + 1) ELSE intEnd
        k == IF At(s, fracEnd + 1) \in {"+", "-"} THEN fracEnd + 2 ELSE fracEnd + 1
        expEnd == IF At(s, fracEnd) \in {"e", "E"} /\ At(s, k) \in Digit
                  THEN DigitsEnd(s, k) ELSE fracEnd
    IN  IF intEnd = i THEN i ELSE expEnd

\* the constants the decoder accepts, longest first where one prefixes another
Literals ==
    << <<"n","u","l","l">>, <<"t","r","u","e">>, <<"f","a","l","s","e">>,
       <<"N","a","N">>, <<"I","n","f","i","n","i","t","y">>,
       <<"-","I","n","f","i","n","i","t","y">> >>

ParseLiteral(s, i) ==
    LET hits == {k \in 1..Len(Literals) : HasPrefixAt(s, i, Literals[k])}
    IN  IF hits = {} THEN ParseFail
        ELSE LET w == Literals[CHOOSE k \in hits : TRUE]
             IN  ParseOk(i + Len(w), Val("lit", w, <<>>))

RECURSIVE ParseValue(_, _)
RECURSIVE ParseElements(_, _, _)
RECURSIVE ParseMembers(_, _, _)

\* the elements of an array after '[', the first one starting at i
ParseElements(s, i, acc) ==
    LET r == ParseValue(s, i)
        j == SkipWs(s, r.pos)
    IN  IF ~r.ok THEN ParseFail
        ELSE IF At(s, j) = ","
             THEN ParseElements(s, SkipWs(s, j + 1), Append(acc, r.val))
        ELSE IF At(s, j) = "]"
             THEN ParseOk(j + 1, Val("arr", <<>>, Append(acc, r.val)))
        ELSE ParseFail

\* the members of an object after '{', the first key starting at i
ParseMembers(s, i, acc) ==
    LET k == ParseString(s, i)
        c == SkipWs(s, k.pos)
        r == ParseValue(s, SkipWs(s, c + 1))
        j == SkipWs(s, r.pos)
    IN  IF ~k.ok \/ At(s, c) # ":" THEN ParseFail
        ELSE IF ~r.ok THEN ParseFail
        ELSE IF At(s, j) = ","
             THEN ParseMembers(s, SkipWs(s, j + 1), acc \o <<k.val, r.val>>)
        ELSE IF At(s, j) = "}"
             THEN ParseOk(j + 1, Val("obj", <<>>, acc \o <<k.val, r.val>>))
        ELSE ParseFail

\* scan_once: the value starting exactly at i
ParseValue(s, i) ==
    LET c == At(s, i)
    IN  IF c = "\"" THEN ParseString(s, i)
        ELSE IF c = "{"
             THEN IF At(s, SkipWs(s, i + 1)) = "}"
                  THEN ParseOk(SkipWs(s, i + 1) + 1, Val("obj", <<>>, <<>>))
                  ELSE ParseMembers(s, SkipWs(s, i + 1), <<>>)
        ELSE IF c = "["
             THEN IF At(s, SkipWs(s, i + 1)) = "]"
                  THEN ParseOk(SkipWs(s, i + 1) + 1, Val("arr", <<>>, <<>>))
                  ELSE ParseElements(s, SkipWs(s, i + 1), <<>>)
        ELSE IF NumberEnd(s, i) > i
             THEN ParseOk(NumberEnd(s, i), Val("num", SubSeq(s, i, NumberEnd(s, i) - 1), <<>>))
        ELSE ParseLiteral(s, i)

\* json.loads(text): the decoded value, or JSONDecodeError
json_loads(text) ==
    LET r == ParseValue(text, SkipWs(text, 1))
    IN  IF r.ok /\ SkipWs(text, r.pos) = Len(text) + 1 THEN r.val
        ELSE JSONDecodeError

(***************************************************************************)
(* The decoded payload: dict access and the pydantic models                *)
(* FileToCreate, FileToEdit and AssistantResponse                          *)
(***************************************************************************)

K_assistant_reply == <<"a","s","s","i","s","t","a","n","t","_","r","e","p","l","y">>
K_files_to_create == <<"f","i","l","e","s","_","t","o","_","c","r","e","a","t","e">>
K_files_to_edit == <<"f","i","l","e","s","_","t","o","_","e","d","i","t">>
K_path == <<"p","a","t","h">>
K_content == <<"c","o","n","t","e","n","t">>
K_original_snippet == <<"o","r","i","g","i","n","a","l","_","s","n","i","p","p","e","t">>
K_new_snippet == <<"n","e","w","_","s","n","i","p","p","e","t">>

\* the positions in obj.items of the values stored under key
KeyHits(obj, key) ==
    {i \in 1..Len(obj.items) : i % 2 = 0 /\ obj.items[i - 1].s = key}

\* key in d, for a decoded dict d
Has(obj, key) == obj.t = "obj" /\ KeyHits(obj, key) # {}

\* d[key]: the decoder keeps the last of several equal keys
Get(obj, key) ==
    obj.items[CHOOSE i \in KeyHits(obj, key) : \A j \in KeyHits(obj, key) : j <= i]

\* the mantissa of a number's text holds a non-zero digit
NonZeroNumber(s) ==
    \E i \in 1..Len(s) :
        /\ s[i] \in Digit \ {"0"}
        /\ \A j \in 1..i : s[j] \notin {"e", "E"}

\* bool(v) for a decoded value
Truthy(v) ==
    CASE v.t = "str" -> v.s # <<>>
      [] v.t = "num" -> NonZeroNumber(v.s)
      [] v.t = "lit" -> v.s \notin {<<"n","u","l","l">>, <<"f","a","l","s","e">>}
      [] OTHER -> v.items # <<>>

\* response_data.get(key, []) or [], a single dict wrapped in a list
\* (lines 822-824 and 834-836); the items the comprehension iterates over,
\* with iterable FALSE when iterating raises TypeError
FieldItems(obj, key) ==
    LET v == Get(obj, key)
    IN  IF ~Has(obj, key) \/ ~Truthy(v) THEN [iterable |-> TRUE, items |-> <<>>]
        ELSE IF v.t = "obj" THEN [iterable |-> TRUE, items |-> <<v>>]
        ELSE IF v.t = "arr" THEN [iterable |-> TRUE, items |-> v.items]
        ELSE IF v.t = "str"
             THEN [iterable |-> TRUE,
                   items |-> [i \in 1..Len(v.s) |-> Val("str", <<v.s[i]>>, <<>>)]]
        ELSE [iterable |-> FALSE, items |-> <<>>]

\* a required field of type str of a pydantic model
StrField(obj, key) == Has(obj, key) /\ Get(obj, key).t = "str"

\* FileToCreate(**item) validates; an item that is no dict is kept and
\* rejected by AssistantResponse
ValidCreate(item) ==
    item.t = "obj" /\ StrField(item, K_path) /\ StrField(item, K_content)

\* FileToEdit(**item) validates
ValidEdit(item) ==
    /\ item.t = "obj"
    /\ StrField(item, K_path)
    /\ StrField(item, K_original_snippet)
    /\ StrField(item, K_new_snippet)

FileToCreate(item) ==
    [path |-> Get(item, K_path).s, content |-> Get(item, K_content).s]

FileToEdit(item) ==
    [path |-> Get(item, K_path).s,
     original_snippet |-> Get(item, K_original_snippet).s,
     new_snippet |-> Get(item, K_new_snippet).s]

\* lines 818-845: the validated AssistantResponse, or ok = FALSE when any
\* step of the conversion raises
AssistantResponse(response_data) ==
    LET fc == FieldItems(response_data, K_files_to_create)
        fe == FieldItems(response_data, K_files_to_edit)
        ok == /\ response_data.t = "obj"
              /\ fc.iterable /\ \A i \in 1..Len(fc.items) : ValidCreate(fc.items[i])
              /\ fe.iterable /\ \A i \in 1..Len(fe.items) : ValidEdit(fe.items[i])
              /\ StrField(response_data, K_assistant_reply)
    IN  IF ok
        THEN [ok |-> TRUE,
              assistant_reply |-> Get(response_data, K_assistant_reply).s,
              files_to_create |-> [i \in 1..Len(fc.items) |-> FileToCreate(fc.items[i])],
              files_to_edit |-> [i \in 1..Len(fe.items) |-> FileToEdit(fe.items[i])]]
        ELSE [ok |-> FALSE, assistant_reply |-> <<>>,
              files_to_create |-> <<>>, files_to_edit |-> <<>>]


(***************************************************************************)
(* The file system and the helpers create_file and apply_diff_edit         *)
(*                                                                         *)
(* A file system is a record                                               *)
(*   files  : path -> content, for the regular files that exist            *)
(*   dirs   : the directories that exist (the working directory always     *)
(*            does and is not listed)                                      *)
(*   locked : the paths whose open(path, "w") raises PermissionError       *)
(* A path is a text.  In a well-formed file system the ancestors of every  *)
(* file and directory are directories, and nothing is both.                *)
(***************************************************************************)

\* the proper ancestors of path, Path(path).parent and its parents
Ancestors(path) ==
    {SubSeq(path, 1, i - 1) : i \in {k \in 2..Len(path) : path[k] = "/"}}

\* a variant of mkdir_parents that makes the parent directory only
mkdir_parent_only(fs, path) ==
    [fs EXCEPT !.dirs = @ \cup {a \in Ancestors(path) :
                                  \A b \in Ancestors(path) : Len(b) <= Len(a)}]

\* file_path.parent.mkdir(parents=True, exist_ok=True)
mkdir_parents(fs, path) == [fs EXCEPT !.dirs = @ \cup Ancestors(path)]

\* read_local_file: the content of path, which must exist
read_local_file(fs, path) == fs.files[path]

\* open(path, "r") raises FileNotFoundError
FileNotFound(fs, path) == path \notin DOMAIN fs.files

\* the exception file_path.parent.mkdir raises, "" if none: an ancestor that
\* is a regular file stops it before any directory is made
MkdirError(fs, path) ==
    LET blocked == Ancestors(path) \cap DOMAIN fs.files
    IN  IF blocked = {} THEN ""
        ELSE IF \E a \in blocked : \A b \in Ancestors(path) : Len(b) <= Len(a)
             THEN "FileExistsError"
        ELSE "NotADirectoryError"

\* create_file(path, content): the parents are made first, then the file is
\* opened for writing and written; exc names the exception raised, "" if none
create_file(fs, path, content) ==
    LET made == mkdir_parents(fs, path)
    IN  IF MkdirError(fs, path) # ""
        THEN [fs |-> fs, exc |-> MkdirError(fs, path)]
        ELSE IF path \in fs.dirs
        THEN [fs |-> made, exc |-> "IsADirectoryError"]
        ELSE IF path \in fs.locked
        THEN [fs |-> made, exc |-> "PermissionError"]
        ELSE [fs |-> [made EXCEPT !.files =
                        [p \in DOMAIN @ \cup {path} |->
                            IF p = path THEN content ELSE @[p]]],
              exc |-> ""]

\* original_snippet in content
Contains(content, snippet) ==
    \E i \in 1..(Len(content) + 1) : HasPrefixAt(content, i, snippet)

\* content.find(snippet), 1-based, for a snippet the content contains
Find(content, snippet) ==
    CHOOSE i \in 1..(Len(content) + 1) :
        /\ HasPrefixAt(content, i, snippet)
        /\ \A j \in 1..(i - 1) : ~HasPrefixAt(content, j, snippet)

\* a variant of replace_first that replaces the last occurrence instead
replace_last(content, original_snippet, new_snippet) ==
    IF ~Contains(content, original_snippet) THEN content
    ELSE LET i == CHOOSE k \in 1..(Len(content) + 1) :
                    /\ HasPrefixAt(content, k, original_snippet)
                    /\ \A j \in (k + 1)..(Len(content) + 1) :
                          ~HasPrefixAt(content, j, original_snippet)
         IN  SubSeq(content, 1, i - 1) \o new_snippet
                 \o From(content, i + Len(original_snippet))

\* content.replace(original_snippet, new_snippet, 1)
replace_first(content, original_snippet, new_snippet) ==
    IF ~Contains(content, original_snippet) THEN content
    ELSE LET i == Find(content, original_snippet)
         IN  SubSeq(content, 1, i - 1) \o new_snippet
                 \o From(content, i + Len(original_snippet))

\* a variant of apply_diff_edit that writes the file back in every branch
apply_diff_edit_writing_back(fs, path, original_snippet, new_snippet) ==
    LET content == IF FileNotFound(fs, path) THEN <<>> ELSE read_local_file(fs, path)
        w == create_file(fs, path,
                 replace_first(content, original_snippet, new_snippet))
    IN  IF w.exc # "" THEN [fs |-> w.fs, result |-> "", exc |-> w.exc]
        ELSE IF FileNotFound(fs, path)
             THEN [fs |-> w.fs, result |-> "File not found for diff editing", exc |-> ""]
        ELSE IF Contains(content, original_snippet)
             THEN [fs |-> w.fs, result |-> "Applied diff edit", exc |-> ""]
        ELSE [fs |-> w.fs, result |-> "Original snippet not found", exc |-> ""]

\* apply_diff_edit(path, original_snippet, new_snippet): result is the
\* status string returned ("" when an exception leaves the function), exc
\* the exception that leaves it
apply_diff_edit(fs, path, original_snippet, new_snippet) ==
    IF FileNotFound(fs, path)
    THEN [fs |-> fs, result |-> "File not found for diff editing", exc |-> ""]
    ELSE LET content == read_local_file(fs, path)
         IN  IF Contains(content, original_snippet)
             THEN LET w == create_file(fs, path,
                               replace_first(content, original_snippet, new_snippet))
                  IN  IF w.exc = ""
                      THEN [fs |-> w.fs, result |-> "Applied diff edit", exc |-> ""]
                      ELSE [fs |-> w.fs, result |-> "", exc |-> w.exc]
             ELSE [fs |-> fs, result |-> "Original snippet not found", exc |-> ""]

(***************************************************************************)
(* handle_assistant_response                                               *)
(*                                                                         *)
(* The handler works on st = [fs, messages, oplog]: the file system, the   *)
(* messages append_to_conversation has displayed, and a log of the file    *)
(* operations attempted.  A message is [kind, text]: kind names the        *)
(* statement that displayed it, text the variable part of its text.        *)
(***************************************************************************)

\* the working directory of the process
CWD == <<"/", "w">>

\* os.path.isabs(path)
isabs(path) == At(path, 1) = "/"

\* the number of components of the working directory
CwdDepth == Cardinality({i \in 1..Len(CWD) : CWD[i] = "/"})

RECURSIVE Ups(_)
\* "../" n times
Ups(n) == IF n = 0 THEN <<>> ELSE <<".", ".", "/">> \o Ups(n - 1)

\* a variant of relpath that returns its argument
samepath(path) == path

\* os.path.relpath(path) for an absolute path: the path below the working
\* directory, or up to the root and down again
relpath(path) ==
    IF path = CWD THEN <<".">>
    ELSE IF HasPrefixAt(path, 1, CWD \o <<"/">>) THEN From(path, Len(CWD) + 2)
    ELSE Ups(CwdDepth) \o From(path, 2)

\* append_to_conversation(text, is_user=False)
Msg(kind, text) == [kind |-> kind, text |-> text]

Display(st, kind, text) == [st EXCEPT !.messages = Append(@, Msg(kind, text))]

\* a variant of CreateItem that reports failures only
CreateItemQuiet(st, file) ==
    LET path == IF isabs(file.path) THEN relpath(file.path) ELSE file.path
        r == create_file(st.fs, path, file.content)
        logged == [st EXCEPT !.fs = r.fs,
                             !.oplog = Append(@, [op |-> "create", path |-> path,
                                                  result |-> "", exc |-> r.exc])]
    IN  IF r.exc = "" THEN logged
        ELSE Display(logged, "Error creating file", path)

\* lines 853-862: one create operation, with its own try/except
CreateItem(st, file) ==
    LET path == IF isabs(file.path) THEN relpath(file.path) ELSE file.path
        r == create_file(st.fs, path, file.content)
        logged == [st EXCEPT !.fs = r.fs,
                             !.oplog = Append(@, [op |-> "create", path |-> path,
                                                  result |-> "", exc |-> r.exc])]
    IN  IF r.exc = ""
        THEN Display(logged, "Created file", path)
        ELSE Display(logged, "Error creating file", path)

\* lines 867-873: one edit operation, with its own try/except
EditItem(st, file) ==
    LET r == apply_diff_edit(st.fs, file.path, file.original_snippet, file.new_snippet)
        logged == [st EXCEPT !.fs = r.fs,
                             !.oplog = Append(@, [op |-> "edit", path |-> file.path,
                                                  result |-> r.result, exc |-> r.exc])]
    IN  IF r.exc # "" THEN Display(logged, "Error editing file", file.path)
        ELSE IF r.result # "" THEN Display(logged, "Updated file", file.path)
        ELSE logged

\* a variant of FileOps that runs the edit loop before the create loop
FileOpsEditsFirst(response) ==
    [i \in 1..Len(response.files_to_edit) |->
        [op |-> "edit", file |-> response.files_to_edit[i]]]
    \o
    [i \in 1..Len(response.files_to_create) |->
        [op |-> "create", file |-> response.files_to_create[i]]]

\* lines 850-873: the operations of a validated response in the order the
\* two loops run them
FileOps(response) ==
    [i \in 1..Len(response.files_to_create) |->
        [op |-> "create", file |-> response.files_to_create[i]]]
    \o
    [i \in 1..Len(response.files_to_edit) |->
        [op |-> "edit", file |-> response.files_to_edit[i]]]

RunItem(st, item) ==
    IF item.op = "create" THEN CreateItem(st, item.file) ELSE EditItem(st, item.file)

RECURSIVE RunItems(_, _)
RunItems(st, items) ==
    IF items = <<>> THEN st ELSE RunItems(RunItem(st, Head(items)), Tail(items))

\* a variant of ShowResponse without the except clause: a response that
\* fails validation displays nothing
ShowResponseNoExcept(st, response) ==
    IF ~response.ok THEN st
    ELSE Display(st, "reply", response.assistant_reply)

\* lines 838-848 and 877-880: the reply of a validated response, or the
\* message of the except clause that validation ends in
ShowResponse(st, response) ==
    IF ~response.ok THEN Display(st, "Unexpected error", <<>>)
    ELSE Display(st, "reply", response.assistant_reply)

\* lines 816-848 and 875-880 after json.loads: the message shown before any
\* file is touched
ShowData(st, response_data) ==
    IF response_data = JSONDecodeError
    THEN Display(st, "Error parsing assistant response", <<>>)
    ELSE ShowResponse(st, AssistantResponse(response_data))

\* lines 816-848 and 875-880: decoding, validation and the reply; what is
\* left to do afterwards is FileOps of the response
HandleStart(st, response_text) == ShowData(st, json_loads(response_text))

\* the validated response of response_text, ok = FALSE when there is none
Validated(response_text) == AssistantResponse(json_loads(response_text))

\* lines 838-873: the reply and the two loops of a validated response
HandleResponse(st, response) ==
    IF response.ok THEN RunItems(ShowResponse(st, response), FileOps(response))
    ELSE ShowResponse(st, response)

\* lines 816-880 after json.loads
HandleData(st, response_data) ==
    IF response_data = JSONDecodeError
    THEN Display(st, "Error parsing assistant response", <<>>)
    ELSE HandleResponse(st, AssistantResponse(response_data))

\* handle_assistant_response(response_text), as one call
handle_assistant_response(st, response_text) ==
    HandleData(st, json_loads(response_text))


(***************************************************************************)
(* State                                                                   *)
(***************************************************************************)

VARIABLES
    fs,              \* the file system
    messages,        \* the messages displayed by append_to_conversation
    oplog,           \* the file operations attempted, in order
    \* handle_assistant_response, step by step
    response_text,   \* its argument
    response,        \* the validated AssistantResponse (line 845)
    todo,            \* the operations its two loops have still to run
    har_pc,          \* "start", "files", "done", or "idle" when not running
    fs0,             \* the file system when the handler was called
    \* apply_diff_edit as a function
    edit_call,       \* the call made and what it returned, or NoCall
    \* the consumer of a streamed completion and its locals
    worker,          \* "process_message", "_process_completion" or "idle"
    model_id,        \* the model selected
    answer,          \* the final-answer text the remote sends in all
    rest,            \* the part of it not yet delivered
    idle,            \* chunks so far that carried no final-answer text
    nreason,         \* chunks so far that carried a reasoning delta
    last_chunk,      \* the chunk consumed last
    json_started,
    json_content,
    current_response,    \* index in messages of the response bubble, 0 for None
    current_reasoning,   \* index in messages of the reasoning bubble, 0 for None
    reasoning_content,   \* reasoning_text in _process_completion
    content,             \* response_text in _process_completion
    calls,           \* the calls of handle_assistant_response: text, and the
                     \* position in content where the text began
    seed_at,         \* position in content of the token that seeded json_content
    plain_pos,       \* positions in content of the tokens routed to plain text
    bubble_from,     \* position in content of the first token shown in the bubble
    pm_pc,           \* "stream", "done", or "idle"
    failed,          \* an exception ended the run
    \* create_file as a function
    create_call,     \* the call made and what it raised, or NoCall
    \* get_api_balance as a function
    balance_call,    \* the call made, what it returned and logged, or NoCall
    \* the running application: the session, its threads and its database
    conversation_id,       \* self.conversation_id
    uuid_next,             \* the value the next uuid.uuid4() returns
    conversations,         \* self.conversations, the saved chats
    conversation_history,  \* the roles of self.conversation_history
    message_widgets,       \* self.message_widgets, the bubbles shown
    input_text,            \* the input field holds a message
    input_state,           \* state of self.input_field
    button_state,          \* state of self.send_button
    workers,               \* the completion workers dispatched, in order
    refreshers,            \* balance-refresh threads started and not yet run
    poll_pc,               \* the periodic poll thread: "poll", "sleep" or "dead"
    api_balance,           \* self.api_balance, in tenths
    ui_touch,              \* which thread has mutated which UI-owned object
    chat_history,          \* the rows of table chat_history
    api_usage,             \* the rows of table api_usage
    thinking_time,         \* the rows of table thinking_time
    thinking_measured,     \* durations measured by MessageBubble.stop_thinking
    total_thinking_time,   \* self.total_thinking_time, in measured durations
    current_conversation_name,
    \* the chat history store queried
    history_call           \* the get_chat_history call made and its result, or NoCall

sharedVars == <<fs, messages, oplog>>
harVars == <<response_text, response, todo, har_pc, fs0>>
editVars == <<edit_call>>
streamVars == <<worker, model_id, answer, rest, idle, nreason, last_chunk>>
extractorVars == <<json_started, json_content, current_response, current_reasoning,
                   reasoning_content, content, calls, seed_at, plain_pos, bubble_from>>
pmVars == <<streamVars, extractorVars, pm_pc, failed>>
createVars == <<create_call>>
balanceVars == <<balance_call>>
sessionVars == <<conversation_id, uuid_next, conversations, conversation_history,
                 current_conversation_name>>
uiVars == <<message_widgets, input_text, input_state, button_state, ui_touch>>
threadVars == <<workers, refreshers, poll_pc, api_balance>>
dbVars == <<chat_history, api_usage, thinking_time, thinking_measured,
            total_thinking_time>>
historyVars == <<history_call>>
guiVars == <<sessionVars, uiVars, threadVars, dbVars>>
appVars == <<createVars, balanceVars, historyVars, guiVars>>
coreVars == <<sharedVars, harVars, editVars, pmVars, historyVars>>
vars == <<sharedVars, harVars, editVars, pmVars, appVars>>

NoResponse == AssistantResponse(JSONDecodeError)

NoCall == [made |-> FALSE]

EmptyFs == [files |-> <<>>, dirs |-> {}, locked |-> {}]

HarIdle ==
    /\ response_text = <<>>
    /\ response = NoResponse
    /\ todo = <<>>
    /\ har_pc = "idle"
    /\ fs0 = EmptyFs

EditIdle == edit_call = NoCall

CreateIdle == create_call = NoCall

BalanceIdle == balance_call = NoCall

HistoryIdle == history_call = NoCall

\* the parts of the application a specification leaves out are at rest
\* the application is not running
GuiIdle ==
    /\ conversation_id = 0
    /\ uuid_next = 0
    /\ conversations = <<>>
    /\ conversation_history = <<>>
    /\ message_widgets = <<>>
    /\ input_text = FALSE
    /\ input_state = "normal"
    /\ button_state = "normal"
    /\ workers = <<>>
    /\ refreshers = 0
    /\ poll_pc = "idle"
    /\ api_balance = 0
    /\ ui_touch = {}
    /\ chat_history = <<>>
    /\ api_usage = <<>>
    /\ thinking_time = <<>>
    /\ thinking_measured = 0
    /\ total_thinking_time = 0
    /\ current_conversation_name = ""

AppIdle == CreateIdle /\ BalanceIdle /\ HistoryIdle /\ GuiIdle

\* a chunk of the stream: chunk.choices[0].delta, with has_reasoning and
\* has_content FALSE for an attribute that is missing or None
Chunk(has_reasoning, reasoning, has_content, content_token) ==
    [has_reasoning |-> has_reasoning, reasoning |-> reasoning,
     has_content |-> has_content, content |-> content_token]

NoChunk == Chunk(FALSE, <<>>, FALSE, <<>>)

\* lines 713-719: the locals before the first chunk
ExtractorStart ==
    /\ json_started = FALSE
    /\ json_content = <<>>
    /\ current_response = 0
    /\ current_reasoning = 0
    /\ reasoning_content = <<>>
    /\ content = <<>>
    /\ calls = <<>>
    /\ seed_at = 0
    /\ plain_pos = {}
    /\ bubble_from = 0

PmIdle ==
    /\ worker = "idle"
    /\ model_id = "deepseek-chat"
    /\ answer = <<>>
    /\ rest = <<>>
    /\ idle = 0
    /\ nreason = 0
    /\ last_chunk = NoChunk
    /\ ExtractorStart
    /\ pm_pc = "idle"
    /\ failed = FALSE

(***************************************************************************)
(* Inputs: response texts in the format the system prompt asks for (lines  *)
(* 630-649), encoded as JSON text, and a few initial file systems          *)
(***************************************************************************)

MaxCreates == 2
MaxEdits == 2

SeqsUpTo(S, n) == UNION {[1..k -> S] : k \in 0..n}

Quote(s) == <<"\"">> \o s \o <<"\"">>

RECURSIVE Join(_)
\* the texts of a sequence, separated by commas
Join(texts) ==
    IF texts = <<>> THEN <<>>
    ELSE IF Len(texts) = 1 THEN texts[1]
    ELSE texts[1] \o <<",">> \o Join(Tail(texts))

EncField(key, valueText) == Quote(key) \o <<":">> \o valueText

EncObj(fields) == <<"{">> \o Join(fields) \o <<"}">>

EncArr(items) == <<"[">> \o Join(items) \o <<"]">>

EncCreate(f) ==
    EncObj(<<EncField(K_path, Quote(f.path)), EncField(K_content, Quote(f.content))>>)

EncEdit(f) ==
    EncObj(<<EncField(K_path, Quote(f.path)),
             EncField(K_original_snippet, Quote(f.original_snippet)),
             EncField(K_new_snippet, Quote(f.new_snippet))>>)

EncResponse(reply, creates, edits) ==
    EncObj(<<EncField(K_assistant_reply, Quote(reply)),
             EncField(K_files_to_create,
                      EncArr([i \in 1..Len(creates) |-> EncCreate(creates[i])])),
             EncField(K_files_to_edit,
                      EncArr([i \in 1..Len(edits) |-> EncEdit(edits[i])]))>>)

P_x == <<"x">>
P_dy == <<"d", "/", "y">>
P_abs == <<"/", "w", "/", "x">>
P_q == <<"q">>

CreateOps ==
    { [path |-> P_x, content |-> <<"a", "b", "a">>],
      [path |-> P_dy, content |-> <<"b">>],
      [path |-> P_abs, content |-> <<"a">>] }

EditOps ==
    { [path |-> P_x, original_snippet |-> <<"a">>, new_snippet |-> <<"b", "b">>],
      [path |-> P_x, original_snippet |-> <<"b", "b">>, new_snippet |-> <<"c">>],
      [path |-> P_dy, original_snippet |-> <<"b">>, new_snippet |-> <<>>] }

ReplyDone == <<"d", "o", "n", "e">>

\* further responses: no JSON, no assistant_reply, a null list and a single
\* edit object in place of a list, a list item that is no object, an empty
\* object in place of a list, a reply that is a number, absolute paths
\* outside the working directory
ExtraResponses ==
    { ReplyDone,
      EncObj(<<EncField(K_files_to_create, EncArr(<<>>))>>),
      EncObj(<<EncField(K_assistant_reply, Quote(ReplyDone)),
               EncField(K_files_to_create, <<"n", "u", "l", "l">>),
               EncField(K_files_to_edit,
                        EncEdit([path |-> P_x, original_snippet |-> <<"a">>,
                                 new_snippet |-> <<>>]))>>),
      EncObj(<<EncField(K_assistant_reply, Quote(ReplyDone)),
               EncField(K_files_to_create, EncArr(<<<<"1">>>>))>>),
      EncObj(<<EncField(K_assistant_reply, Quote(ReplyDone)),
               EncField(K_files_to_create, EncObj(<<>>))>>),
      EncObj(<<EncField(K_assistant_reply, <<"1">>)>>),
      EncResponse(ReplyDone,
                  <<[path |-> <<"/", "q">>, content |-> <<"a">>]>>,
                  <<[path |-> <<"/", "r">>, original_snippet |-> <<"a">>,
                     new_snippet |-> <<"b">>]>>) }

ExecResponses ==
    { EncResponse(ReplyDone, c, e) :
        c \in SeqsUpTo(CreateOps, MaxCreates), e \in SeqsUpTo(EditOps, MaxEdits) }
    \cup ExtraResponses

\* x and d/y each exist or not; one of them may be write-protected
ExecFileSystems ==
    { [files |-> [p \in ps |-> IF p = P_x THEN <<"a", "b", "a">> ELSE <<"b">>],
       dirs |-> IF P_dy \in ps THEN {<<"d">>} ELSE {},
       locked |-> l] :
        ps \in SUBSET {P_x, P_dy}, l \in {{}, {P_x}, {P_dy}} }

(***************************************************************************)
(* SpecExec: handle_assistant_response run step by step on one response    *)
(***************************************************************************)

St == [fs |-> fs, messages |-> messages, oplog |-> oplog]

SetSt(st) ==
    /\ fs' = st.fs
    /\ messages' = st.messages
    /\ oplog' = st.oplog

InitExec ==
    /\ fs \in ExecFileSystems
    /\ fs0 = fs
    /\ messages = <<>>
    /\ oplog = <<>>
    /\ response_text \in ExecResponses
    /\ response = NoResponse
    /\ todo = <<>>
    /\ har_pc = "start"
    /\ EditIdle
    /\ PmIdle
    /\ AppIdle

\* lines 816-848: decode, validate, display the reply (or the error)
HarStart ==
    /\ har_pc = "start"
    /\ SetSt(HandleStart(St, response_text))
    /\ response' = Validated(response_text)
    /\ todo' = IF response'.ok THEN FileOps(response') ELSE <<>>
    /\ har_pc' = "files"
    /\ UNCHANGED <<response_text, fs0, editVars, pmVars, appVars>>

\* a variant of HarCreate without the try/except around the item: the
\* exception reaches the handler's outer except and ends the loops
HarCreateUnguarded ==
    /\ har_pc = "files"
    /\ todo # <<>>
    /\ Head(todo).op = "create"
    /\ LET st == CreateItem(St, Head(todo).file)
       IN  IF Head(todo).file.path \in fs.locked
           THEN /\ SetSt(Display([st EXCEPT !.messages = messages],
                                 "Unexpected error", <<>>))
                /\ todo' = <<>>
           ELSE /\ SetSt(st)
                /\ todo' = Tail(todo)
    /\ UNCHANGED <<response_text, response, har_pc, fs0, editVars, pmVars, appVars>>

\* lines 852-862: the next create operation
HarCreate ==
    /\ har_pc = "files"
    /\ todo # <<>>
    /\ Head(todo).op = "create"
    /\ SetSt(CreateItem(St, Head(todo).file))
    /\ todo' = Tail(todo)
    /\ UNCHANGED <<response_text, response, har_pc, fs0, editVars, pmVars, appVars>>

\* lines 866-873: the next edit operation
HarEdit ==
    /\ har_pc = "files"
    /\ todo # <<>>
    /\ Head(todo).op = "edit"
    /\ SetSt(EditItem(St, Head(todo).file))
    /\ todo' = Tail(todo)
    /\ UNCHANGED <<response_text, response, har_pc, fs0, editVars, pmVars, appVars>>

\* the handler returns
HarReturn ==
    /\ har_pc = "files"
    /\ todo = <<>>
    /\ har_pc' = "done"
    /\ UNCHANGED <<sharedVars, response_text, response, todo, fs0, editVars, pmVars, appVars>>

NextExec == HarStart \/ HarCreate \/ HarEdit \/ HarReturn

SpecExec == InitExec /\ [][NextExec]_vars



(***************************************************************************)
(* SpecEdit: apply_diff_edit called once on a small file system            *)
(***************************************************************************)

MaxContent == 3
MaxSnippet == 2

Letters == {"a", "b"}

\* x does not exist, or holds any short text; it may be write-protected
EditFileSystems ==
    { [files |-> [p \in ps |-> c], dirs |-> {}, locked |-> l] :
        ps \in {{}, {P_x}}, c \in SeqsUpTo(Letters, MaxContent), l \in {{}, {P_x}} }

InitEdit ==
    /\ fs \in EditFileSystems
    /\ messages = <<>>
    /\ oplog = <<>>
    /\ HarIdle
    /\ edit_call = NoCall
    /\ PmIdle
    /\ AppIdle

\* apply_diff_edit(path, original_snippet, new_snippet)
ApplyDiffEdit ==
    /\ ~edit_call.made
    /\ \E path \in {P_x, P_q},
          original_snippet \in SeqsUpTo(Letters, MaxSnippet),
          new_snippet \in SeqsUpTo(Letters, MaxSnippet) :
          LET r == apply_diff_edit(fs, path, original_snippet, new_snippet)
          IN  /\ fs' = r.fs
              /\ edit_call' = [made |-> TRUE, path |-> path,
                               original_snippet |-> original_snippet,
                               new_snippet |-> new_snippet,
                               before |-> fs, result |-> r.result, exc |-> r.exc]
    /\ UNCHANGED <<messages, oplog, harVars, pmVars, appVars>>

NextEdit == ApplyDiffEdit

SpecEdit == InitEdit /\ [][NextEdit]_vars

(***************************************************************************)
(* SpecCreate: create_file called once on a small file system              *)
(***************************************************************************)

P_a == <<"a">>
P_ab == <<"a", "/", "b">>
P_abc == <<"a", "/", "b", "/", "c">>

WellFormed(f) ==
    /\ f.dirs \cap DOMAIN f.files = {}
    /\ \A q \in f.dirs \cup DOMAIN f.files : Ancestors(q) \subseteq f.dirs

\* any well-formed file system over x, a, a/b and a/b/c: each of a, a/b and
\* a/b/c may be missing or a directory, x, a and a/b/c may be files, and
\* a/b/c may be write-protected
CreateFileSystems ==
    { f \in [files : UNION {[ps -> {<<>>, <<"a">>}] : ps \in SUBSET {P_x, P_a, P_abc}},
             dirs : SUBSET {P_a, P_ab, P_abc},
             locked : {{}, {P_abc}}] : WellFormed(f) }

InitCreate ==
    /\ fs \in CreateFileSystems
    /\ messages = <<>>
    /\ oplog = <<>>
    /\ HarIdle
    /\ EditIdle
    /\ PmIdle
    /\ create_call = NoCall
    /\ BalanceIdle
    /\ HistoryIdle
    /\ GuiIdle

\* create_file(path, content)
CreateFile ==
    /\ ~create_call.made
    /\ \E path \in {P_x, P_abc}, text \in SeqsUpTo(Letters, MaxSnippet) :
          LET r == create_file(fs, path, text)
          IN  /\ fs' = r.fs
              /\ create_call' = [made |-> TRUE, path |-> path, content |-> text,
                                 before |-> fs, exc |-> r.exc]
    /\ UNCHANGED <<messages, oplog, harVars, editVars, pmVars, balanceVars,
                   historyVars, guiVars>>

NextCreate == CreateFile

SpecCreate == InitCreate /\ [][NextCreate]_vars

(***************************************************************************)
(* SpecBalance: get_api_balance called once, on any outcome of the request *)
(*                                                                         *)
(* A float is held in tenths, as an integer; the balances of this model    *)
(* have at most one decimal.                                               *)
(***************************************************************************)

K_balance == <<"b","a","l","a","n","c","e">>

DigitValue(c) == CHOOSE n \in 0..9 : <<"0","1","2","3","4","5","6","7","8","9">>[n + 1] = c

RECURSIVE DigitsValue(_, _)
\* the value of the digits of s, after the value acc of the digits before
DigitsValue(s, acc) ==
    IF s = <<>> THEN acc ELSE DigitsValue(Tail(s), 10 * acc + DigitValue(Head(s)))

\* s without leading and trailing whitespace
Strip(s) ==
    LET i == SkipWs(s, 1)
        ends == {j \in i..Len(s) : s[j] \notin WS}
    IN  IF ends = {} THEN <<>>
        ELSE SubSeq(s, i, CHOOSE j \in ends : \A k \in ends : k <= j)

\* float(text): ok and the value in tenths for a decimal text with at
\* most one decimal, ok = FALSE (ValueError) for a text that is no number
FloatOfText(text) ==
    LET t == Strip(text)
        neg == At(t, 1) = "-"
        u == IF neg THEN Tail(t) ELSE t
        e == DigitsEnd(u, 1)
        whole == SubSeq(u, 1, e - 1)
        frac == IF At(u, e) = "." THEN From(u, e + 1) ELSE <<>>
        good == /\ whole # <<>>
                /\ IF At(u, e) = "."
                   THEN Len(frac) = 1 /\ frac[1] \in Digit
                   ELSE e = Len(u) + 1
        magnitude == 10 * DigitsValue(whole, 0)
                        + (IF frac = <<>> THEN 0 ELSE DigitValue(frac[1]))
    IN  IF good THEN [ok |-> TRUE, tenths |-> IF neg THEN 0 - magnitude ELSE magnitude]
        ELSE [ok |-> FALSE, tenths |-> 0]

\* float(v) for a decoded value: exc names the exception raised, "" if none
FloatOf(v) ==
    CASE v.t = "num" -> [exc |-> "", tenths |-> FloatOfText(v.s).tenths]
      [] v.t = "str" -> IF FloatOfText(v.s).ok
                        THEN [exc |-> "", tenths |-> FloatOfText(v.s).tenths]
                        ELSE [exc |-> "ValueError", tenths |-> 0]
      [] v.t = "lit" /\ v.s = <<"t","r","u","e">> -> [exc |-> "", tenths |-> 10]
      [] v.t = "lit" /\ v.s = <<"f","a","l","s","e">> -> [exc |-> "", tenths |-> 0]
      [] OTHER -> [exc |-> "TypeError", tenths |-> 0]

\* a variant of RaisesForStatus for a client that never checks the status
RaisesForNoStatus(status) == FALSE

\* response.raise_for_status() raises HTTPError (line 902)
RaisesForStatus(status) == status >= 400 /\ status < 600

\* what get_api_balance returns and logs; raised = FALSE: every except
\* clause returns 0.0 (lines 905-913)
Returned(tenths, logged) == [tenths |-> tenths, logged |-> logged, raised |-> FALSE]

\* lines 903-904 on the decoded body
BalanceOf(data) ==
    IF data.t # "obj"
    THEN Returned(0, "Unexpected error getting API balance")
    ELSE IF ~Has(data, K_balance) THEN Returned(0, "")
    ELSE IF FloatOf(Get(data, K_balance)).exc = ""
         THEN Returned(FloatOf(Get(data, K_balance)).tenths, "")
    ELSE IF FloatOf(Get(data, K_balance)).exc = "ValueError"
         THEN Returned(0, "Error parsing API response")
    ELSE Returned(0, "Unexpected error getting API balance")

\* lines 903-913 on the body; the error response.json() raises is a
\* RequestException in the newer releases of requests and a plain
\* ValueError in the older ones
ParseBalance(data, json_error_is_request_exception) ==
    IF data = JSONDecodeError
    THEN IF json_error_is_request_exception
         THEN Returned(0, "API request failed")
         ELSE Returned(0, "Error parsing API response")
    ELSE BalanceOf(data)

\* get_api_balance(), given what the request brings back
get_api_balance(reply, json_error_is_request_exception) ==
    IF reply.transport # "ok" \/ RaisesForStatus(reply.status)
    THEN Returned(0, "API request failed")
    ELSE ParseBalance(json_loads(reply.body), json_error_is_request_exception)

BalanceField(valueText) == EncObj(<<EncField(K_balance, valueText)>>)

\* the bodies of a reply
BalanceBodies ==
    { BalanceField(<<"7">>), BalanceField(<<"2", ".", "5">>), BalanceField(<<"0">>),
      BalanceField(<<"-", "1">>), BalanceField(Quote(<<"7">>)),
      BalanceField(Quote(<<" ", "1", "2", " ">>)), BalanceField(Quote(<<"x">>)),
      BalanceField(Quote(<<>>)), BalanceField(<<"n","u","l","l">>),
      BalanceField(<<"t","r","u","e">>), BalanceField(EncArr(<<<<"7">>>>)),
      BalanceField(EncObj(<<>>)), EncObj(<<>>),
      EncObj(<<EncField(<<"o">>, <<"7">>)>>), EncArr(<<<<"7">>>>), <<"7">>,
      <<"n","u","l","l">>, <<"{", "\"", "b">>, <<"o", "o", "p", "s">>, <<>> }

\* what the request brings back: an exception of requests.get (no
\* connection, timeout), or a response with a status and a body
BalanceReplies ==
    { [transport |-> t, status |-> 0, body |-> <<>>] :
        t \in {"ConnectionError", "Timeout"} }
    \cup { [transport |-> "ok", status |-> st, body |-> b] :
              st \in {200, 204, 300, 404, 500}, b \in BalanceBodies }

InitBalance ==
    /\ fs = EmptyFs
    /\ messages = <<>>
    /\ oplog = <<>>
    /\ HarIdle
    /\ EditIdle
    /\ PmIdle
    /\ CreateIdle
    /\ balance_call = NoCall
    /\ HistoryIdle
    /\ GuiIdle

\* get_api_balance()
GetApiBalance ==
    /\ ~balance_call.made
    /\ \E reply \in BalanceReplies, newer \in BOOLEAN :
          balance_call' = [made |-> TRUE, reply |-> reply,
                           out |-> get_api_balance(reply, newer)]
    /\ UNCHANGED <<coreVars, createVars, guiVars>>

NextBalance == GetApiBalance

SpecBalance == InitBalance /\ [][NextBalance]_vars

(***************************************************************************)
(* SpecDb: the store of database.py.  A table is the sequence of its rows  *)
(* in the order of their AUTOINCREMENT ids.  A timestamp is the local wall *)
(* clock read by datetime.now(), which may stand still or step back        *)
(* between two calls; a BOOLEAN column holds 0 or 1.                       *)
(***************************************************************************)

MaxRows == 3

\* the readings of the clock, in the order of their isoformat() texts
Instants == {1, 2}

\* Python's None given as the content: a value that is no text
None == <<"", "">>

\* a variant of get_chat_history that leaves out the WHERE clause
get_whole_chat_history(table, cid) ==
    LET hits == DOMAIN table
        n == Cardinality(hits)
    IN  { [k \in 1..n |-> [role |-> table[f[k]].role,
                           content |-> table[f[k]].content,
                           is_reasoning |-> table[f[k]].is_reasoning # 0]] :
            f \in { g \in [1..n -> hits] :
                      /\ \A i, j \in 1..n : g[i] = g[j] => i = j
                      /\ \A i, j \in 1..n :
                            i < j => table[g[i]].timestamp <= table[g[j]].timestamp } }

\* add_chat_message (lines 63-81): the table after the INSERT, unchanged when
\* the NOT NULL column content is given None (sqlite3.IntegrityError)
add_chat_message(table, now, role, text, cid, is_reasoning) ==
    IF text = None THEN table
    ELSE Append(table, [id |-> Len(table) + 1, timestamp |-> now, role |-> role,
                        content |-> text, conversation_id |-> cid,
                        is_reasoning |-> IF is_reasoning THEN 1 ELSE 0])

\* add_api_usage (lines 106-123)
add_api_usage(table, now, cid) ==
    Append(table, [id |-> Len(table) + 1, timestamp |-> now, conversation_id |-> cid])

\* add_thinking_time (lines 151-167)
add_thinking_time(table, now, cid) ==
    Append(table, [id |-> Len(table) + 1, timestamp |-> now, conversation_id |-> cid])

\* get_chat_history (lines 83-104): the lists the SELECT may return; rows of
\* equal timestamp come in an order the query does not fix
get_chat_history(table, cid) ==
    LET hits == {i \in DOMAIN table : table[i].conversation_id = cid}
        n == Cardinality(hits)
    IN  { [k \in 1..n |-> [role |-> table[f[k]].role,
                           content |-> table[f[k]].content,
                           is_reasoning |-> table[f[k]].is_reasoning # 0]] :
            f \in { g \in [1..n -> hits] :
                      /\ \A i, j \in 1..n : g[i] = g[j] => i = j
                      /\ \A i, j \in 1..n :
                            i < j => table[g[i]].timestamp <= table[g[j]].timestamp } }

\* the rows written so far, in the three tables
RowsWritten == Len(chat_history) + Len(api_usage) + Len(thinking_time)

\* DatabaseManager() on a new file (lines 14-61)
InitDb ==
    /\ fs = EmptyFs
    /\ messages = <<>>
    /\ oplog = <<>>
    /\ HarIdle
    /\ EditIdle
    /\ PmIdle
    /\ CreateIdle
    /\ BalanceIdle
    /\ GuiIdle
    /\ history_call = NoCall

DbFrame ==
    UNCHANGED <<sharedVars, harVars, editVars, pmVars, createVars, balanceVars,
                sessionVars, uiVars, threadVars, thinking_measured,
                total_thinking_time>>

AddChatMessage ==
    /\ RowsWritten < MaxRows
    /\ \E now \in Instants, text \in {<<"a">>, None}, cid \in {1, 2},
          kind \in {<<"user", FALSE>>, <<"assistant", FALSE>>, <<"assistant", TRUE>>} :
          chat_history' = add_chat_message(chat_history, now, kind[1], text, cid,
                                           kind[2])
    /\ UNCHANGED <<api_usage, thinking_time, history_call>>
    /\ DbFrame

AddApiUsage ==
    /\ RowsWritten < MaxRows
    /\ \E now \in Instants, cid \in {1, 2} :
          api_usage' = add_api_usage(api_usage, now, cid)
    /\ UNCHANGED <<chat_history, thinking_time, history_call>>
    /\ DbFrame

AddThinkingTime ==
    /\ RowsWritten < MaxRows
    /\ \E now \in Instants, cid \in {1, 2} :
          thinking_time' = add_thinking_time(thinking_time, now, cid)
    /\ UNCHANGED <<chat_history, api_usage, history_call>>
    /\ DbFrame

\* a call of get_chat_history, kept with the table it read
GetChatHistory ==
    /\ \E cid \in {1, 2} : \E result \in get_chat_history(chat_history, cid) :
          history_call' = [made |-> TRUE, conversation_id |-> cid,
                           table |-> chat_history, result |-> result]
    /\ UNCHANGED <<chat_history, api_usage, thinking_time>>
    /\ DbFrame

NextDb == AddChatMessage \/ AddApiUsage \/ AddThinkingTime \/ GetChatHistory

SpecDb == InitDb /\ [][NextDb]_vars

(***************************************************************************)
(* SpecApp: the running application.  The UI thread runs the event loop    *)
(* (typing, send_message, start_new_chat); send_message starts a           *)
(* completion worker and a balance-refresh thread; the poll thread started *)
(* by __init__ refreshes the balance for ever.  A step of a thread is a    *)
(* stretch of its code between two points where another thread may run.    *)
(* The stream and the handler are reduced to the messages they show.       *)
(***************************************************************************)

MaxSends == 1
MaxChats == 1

\* what a balance query of the running application may bring back
AppReplies ==
    { [transport |-> "ok", status |-> 200, body |-> BalanceField(<<"7">>)],
      [transport |-> "ok", status |-> 500, body |-> <<>>] }

\* what get_api_balance() returns and logs for them
AppOutcomes == {get_api_balance(reply, TRUE) : reply \in AppReplies}

\* the UI-owned objects a stretch of code works on
U == [message_widgets |-> message_widgets, chat_history |-> chat_history,
      ui_touch |-> ui_touch]

SetU(u) ==
    /\ message_widgets' = u.message_widgets
    /\ chat_history' = u.chat_history
    /\ ui_touch' = u.ui_touch

\* a widget is created, configured or destroyed by a thread; the widgets are
\* "conversation" (the message bubbles and the list of them), "controls" (the
\* input field and the send button) and "labels" (balance, thinking time)
Touch(u, widget, thread) ==
    [u EXCEPT !.ui_touch = @ \cup {[widget |-> widget, thread |-> thread]}]

\* append_to_conversation(text, is_user, is_reasoning) run by a thread while
\* self.conversation_id is cid (lines 1097-1115)
append_to_conversation(u, thread, is_user, is_reasoning, cid) ==
    [Touch(u, "conversation", thread) EXCEPT
        !.message_widgets = Append(@, [is_user |-> is_user,
                                       is_reasoning |-> is_reasoning]),
        !.chat_history = Append(@, [role |-> IF is_user THEN "user" ELSE "assistant",
                                    conversation_id |-> cid,
                                    is_reasoning |-> is_reasoning])]

\* input_field.configure(state=...) and send_button.configure(state=...)
ConfigureInput(u, thread) == Touch(u, "controls", thread)

\* update_api_balance() run by a thread (lines 922-925)
update_api_balance(thread, outcome) ==
    /\ api_balance' = outcome.tenths
    /\ ui_touch' = ui_touch \cup {[widget |-> "labels", thread |-> thread]}

Worker(cid) == [pc |-> "request", reasoning |-> FALSE, sent_in |-> cid]

\* the name of the current conversation (line 313)
NewChat == <<"N","e","w"," ","C","h","a","t">>

\* __init__ (lines 269-355): the first balance query runs on the UI thread
\* before the label exists
InitApp ==
    /\ fs = EmptyFs
    /\ messages = <<>>
    /\ oplog = <<>>
    /\ HarIdle
    /\ EditIdle
    /\ PmIdle
    /\ CreateIdle
    /\ BalanceIdle
    /\ HistoryIdle
    /\ conversation_id = 1
    /\ uuid_next = 2
    /\ conversations = <<>>
    /\ conversation_history = <<"system">>
    /\ message_widgets = <<>>
    /\ input_text = FALSE
    /\ input_state = "normal"
    /\ button_state = "normal"
    /\ workers = <<>>
    /\ refreshers = 0
    /\ poll_pc = "poll"
    /\ api_balance \in {outcome.tenths : outcome \in AppOutcomes}
    /\ ui_touch = {}
    /\ chat_history = <<>>
    /\ api_usage = <<>>
    /\ thinking_time = <<>>
    /\ thinking_measured = 0
    /\ total_thinking_time = 0
    /\ current_conversation_name = NewChat

\* the user types a message; a disabled text box takes no input
TypeText ==
    /\ input_state = "normal"
    /\ ~input_text
    /\ Len(workers) < MaxSends
    /\ input_text' = TRUE
    /\ UNCHANGED <<coreVars, createVars, balanceVars, sessionVars, threadVars, dbVars,
                   message_widgets, input_state, button_state, ui_touch>>

\* send_message (lines 946-985), by the Send button or the Return key; with
\* an empty input field it returns at once.  started: the start of the
\* balance-refresh thread (line 975) succeeds, or raises RuntimeError
SendMessage ==
    /\ input_text
    /\ Len(workers) < MaxSends
    /\ \E started \in BOOLEAN :
          LET shown == append_to_conversation(ConfigureInput(U, "ui"), "ui",
                                              TRUE, FALSE, conversation_id)
          IN  /\ input_text' = FALSE
              /\ conversation_history' = Append(conversation_history, "user")
              /\ workers' = Append(workers, Worker(conversation_id))
              /\ IF started
                 THEN /\ refreshers' = refreshers + 1
                      /\ input_state' = "disabled"
                      /\ button_state' = "disabled"
                      /\ SetU(shown)
                 ELSE /\ refreshers' = refreshers
                      /\ input_state' = "normal"
                      /\ button_state' = "normal"
                      /\ SetU(ConfigureInput(
                                append_to_conversation(shown, "ui", FALSE, FALSE,
                                                       conversation_id), "ui"))
    /\ UNCHANGED <<coreVars, createVars, balanceVars, conversation_id, uuid_next,
                   conversations, current_conversation_name, poll_pc, api_balance,
                   api_usage, thinking_time, thinking_measured, total_thinking_time>>

\* a variant of StartNewChat that carries the identifier over to the new chat
StartNewChatSameId ==
    /\ Len(conversations) < MaxChats
    /\ conversations' = Append(conversations, [id |-> conversation_id])
    /\ conversation_history' = <<"system">>
    /\ message_widgets' = <<>>
    /\ ui_touch' = ui_touch \cup
            {[widget |-> w, thread |-> "ui"] : w \in {"conversation", "labels"}}
    /\ total_thinking_time' = 0
    /\ UNCHANGED <<coreVars, createVars, balanceVars, threadVars, chat_history,
                   api_usage, thinking_time, thinking_measured,
                   current_conversation_name,
                   conversation_id, uuid_next, input_text, input_state, button_state>>

\* a variant of StartNewChat that keeps the history of the chat it leaves
StartNewChatKeepHistory ==
    /\ Len(conversations) < MaxChats
    /\ conversations' = IF conversation_history # <<>>
                         THEN Append(conversations, [id |-> conversation_id])
                         ELSE conversations
    /\ conversation_id' = uuid_next
    /\ uuid_next' = uuid_next + 1
    /\ conversation_history' = conversation_history
    /\ message_widgets' = <<>>
    /\ ui_touch' = ui_touch \cup
            {[widget |-> w, thread |-> "ui"] :
                w \in {"conversation", "labels"}}
    /\ total_thinking_time' = 0
    /\ UNCHANGED <<coreVars, createVars, balanceVars, threadVars, chat_history,
                   api_usage, thinking_time, thinking_measured,
                   current_conversation_name, input_text, input_state, button_state>>

\* start_new_chat (lines 389-422)
StartNewChat ==
    /\ Len(conversations) < MaxChats
    /\ conversations' = IF conversation_history # <<>>
                         THEN Append(conversations, [id |-> conversation_id])
                         ELSE conversations
    /\ conversation_id' = uuid_next
    /\ uuid_next' = uuid_next + 1
    /\ conversation_history' = <<"system">>
    /\ message_widgets' = <<>>
    /\ ui_touch' = ui_touch \cup
            {[widget |-> w, thread |-> "ui"] :
                w \in {"conversation", "labels"}}
    /\ total_thinking_time' = 0
    /\ UNCHANGED <<coreVars, createVars, balanceVars, threadVars, chat_history,
                   api_usage, thinking_time, thinking_measured,
                   current_conversation_name, input_text, input_state, button_state>>

\* the steps of completion worker w leave these alone
WorkerFrame ==
    UNCHANGED <<coreVars, createVars, balanceVars, sessionVars, input_text,
                refreshers, poll_pc, api_balance, thinking_time>>

\* lines 1013-1030: the request is made; it raises, or the stream opens and
\* the usage is recorded
WRequest(w) ==
    /\ workers[w].pc = "request"
    /\ \E raised \in BOOLEAN :
          IF raised
          THEN /\ workers' = [workers EXCEPT ![w].pc = "except"]
               /\ api_usage' = api_usage
          ELSE /\ workers' = [workers EXCEPT ![w].pc = "stream"]
               /\ api_usage' = Append(api_usage, [conversation_id |-> conversation_id])
    /\ UNCHANGED <<uiVars, chat_history, thinking_measured, total_thinking_time>>
    /\ WorkerFrame

\* lines 1038-1042: the first reasoning delta makes the reasoning bubble
WReasoning(w) ==
    /\ workers[w].pc = "stream"
    /\ ~workers[w].reasoning
    /\ workers' = [workers EXCEPT ![w].reasoning = TRUE]
    /\ SetU(append_to_conversation(U, "completion", FALSE, TRUE, conversation_id))
    /\ UNCHANGED <<input_state, button_state, api_usage, thinking_measured,
                   total_thinking_time>>
    /\ WorkerFrame

\* lines 1036-1063: the stream ends, with or without final-answer text, or
\* breaks with an exception; a reasoning bubble stops its timer (172-188)
WStreamEnd(w) ==
    /\ workers[w].pc = "stream"
    /\ \E outcome \in {"text", "empty", "raised"} :
          /\ workers' = [workers EXCEPT
                            ![w].pc = CASE outcome = "text" -> "handle"
                                        [] outcome = "empty" -> "finally"
                                        [] OTHER -> "except"]
          /\ IF outcome # "raised" /\ workers[w].reasoning
             THEN /\ thinking_measured' = thinking_measured + 1
                  /\ total_thinking_time' = total_thinking_time + 1
                  /\ ui_touch' = ui_touch \cup
                        {[widget |-> x, thread |-> "completion"] :
                            x \in {"conversation", "labels"}}
             ELSE UNCHANGED <<thinking_measured, total_thinking_time, ui_touch>>
    /\ UNCHANGED <<message_widgets, input_state, button_state, chat_history, api_usage>>
    /\ WorkerFrame

\* lines 1065-1067: handle_assistant_response shows the reply or its error
WHandle(w) ==
    /\ workers[w].pc = "handle"
    /\ workers' = [workers EXCEPT ![w].pc = "finally"]
    /\ SetU(append_to_conversation(U, "completion", FALSE, FALSE, conversation_id))
    /\ UNCHANGED <<input_state, button_state, api_usage, thinking_measured,
                   total_thinking_time>>
    /\ WorkerFrame

\* a variant of WExcept for a worker that lets the exception escape
WExceptEscapes(w) ==
    /\ workers[w].pc = "except"
    /\ workers' = [workers EXCEPT ![w].pc = "done"]
    /\ UNCHANGED <<uiVars, dbVars>>
    /\ WorkerFrame

\* lines 1069-1070: the except clause shows the error
WExcept(w) ==
    /\ workers[w].pc = "except"
    /\ workers' = [workers EXCEPT ![w].pc = "finally"]
    /\ SetU(append_to_conversation(U, "completion", FALSE, FALSE, conversation_id))
    /\ UNCHANGED <<input_state, button_state, api_usage, thinking_measured,
                   total_thinking_time>>
    /\ WorkerFrame

\* lines 1071-1077: the finally clause enables the controls
WFinally(w) ==
    /\ workers[w].pc = "finally"
    /\ workers' = [workers EXCEPT ![w].pc = "done"]
    /\ input_state' = "normal"
    /\ button_state' = "normal"
    /\ SetU(ConfigureInput(U, "completion"))
    /\ UNCHANGED <<api_usage, thinking_measured, total_thinking_time>>
    /\ WorkerFrame

Request == \E w \in DOMAIN workers : WRequest(w)
Reasoning == \E w \in DOMAIN workers : WReasoning(w)
StreamEnd == \E w \in DOMAIN workers : WStreamEnd(w)
Handle == \E w \in DOMAIN workers : WHandle(w)
Except == \E w \in DOMAIN workers : WExcept(w)
Finally == \E w \in DOMAIN workers : WFinally(w)

\* the thread started at line 975 runs update_api_balance
Refresh ==
    /\ refreshers > 0
    /\ refreshers' = refreshers - 1
    /\ \E outcome \in AppOutcomes : update_api_balance("balance", outcome)
    /\ UNCHANGED <<coreVars, createVars, balanceVars, sessionVars, dbVars,
                   message_widgets, input_text, input_state, button_state,
                   workers, poll_pc>>

\* a variant of AfterPoll for a loop that a failed poll ends
AfterPollOrDie(outcome) == IF outcome.logged # "" THEN "dead" ELSE "sleep"

\* lines 995-1000: whatever the poll did, the loop goes on to sleep
AfterPoll(outcome) == "sleep"

\* lines 996-1000 of update_loop: one poll
Poll ==
    /\ poll_pc = "poll"
    /\ \E outcome \in AppOutcomes :
          /\ update_api_balance("poll", outcome)
          /\ poll_pc' = AfterPoll(outcome)
    /\ UNCHANGED <<coreVars, createVars, balanceVars, sessionVars, dbVars,
                   message_widgets, input_text, input_state, button_state,
                   workers, refreshers>>

\* line 1000: time.sleep(300) returns
PollWake ==
    /\ poll_pc = "sleep"
    /\ poll_pc' = "poll"
    /\ UNCHANGED <<coreVars, createVars, balanceVars, sessionVars, dbVars, uiVars,
                   workers, refreshers, api_balance>>

NextApp ==
    \/ TypeText \/ SendMessage \/ StartNewChat
    \/ Request \/ Reasoning \/ StreamEnd \/ Handle \/ Except \/ Finally
    \/ Refresh \/ Poll \/ PollWake

SpecApp == InitApp /\ [][NextApp]_vars

\* the code of worker w after its stream is over: it waits for nothing
WLocal(w) == w \in DOMAIN workers /\ (WHandle(w) \/ WExcept(w) \/ WFinally(w))

\* the threads are scheduled by the operating system: a thread that can take
\* a step takes it.  The request and the stream wait for the network and are
\* not required to make progress.
AppFairness ==
    /\ \A w \in 1..MaxSends : WF_vars(WLocal(w))
    /\ WF_vars(Poll)
    /\ WF_vars(PollWake)

SpecAppLive == InitApp /\ [][NextApp]_vars /\ AppFairness

(***************************************************************************)
(* Spec: one streamed completion, consumed chunk by chunk either by        *)
(* process_message (the incremental extractor) or by _process_completion   *)
(* (the whole response handled at the end of the stream).  The remote      *)
(* sends the final-answer text in pieces of its own choosing, and may add  *)
(* a reasoning delta to any chunk.                                         *)
(***************************************************************************)

MaxIdle == 1
MaxReasoning == 1

\* {"assistant_reply":"x"}
Target == EncObj(<<EncField(K_assistant_reply, Quote(<<"x">>))>>)

\* {"a":1}, {"b":2} and {"z":1}
ObjA == EncObj(<<EncField(<<"a">>, <<"1">>)>>)
ObjB == EncObj(<<EncField(<<"b">>, <<"2">>)>>)
ObjZ == EncObj(<<EncField(<<"z">>, <<"1">>)>>)

\* the final-answer texts a stream may carry: the object alone, after prose,
\* before prose, two objects, a stray brace in prose, a brace inside a
\* string, blank text, prose alone, nothing
AnswerTexts ==
    { Target,
      <<"o", "k", " ">> \o ObjA,
      ObjA \o <<" ", "b">>,
      ObjA \o ObjB,
      <<"a", " ", "{", " ", "b">>,
      EncObj(<<EncField(<<"a">>, Quote(<<"}">>))>>),
      <<" ", "\n">>,
      <<"h", "i">>,
      <<>> }

\* the reasoning deltas a chunk may carry
ReasoningTokens == { <<" ">>, ObjZ }

Models == {"deepseek-chat", "deepseek-reasoner"}

\* the chunks the remote may send next
NextChunks ==
    { Chunk(hr, r, hc, SubSeq(rest, 1, k)) :
        hr \in BOOLEAN, r \in ReasoningTokens, hc \in BOOLEAN, k \in 0..Len(rest) }

\* a chunk the bounds of the model admit
Admitted(chunk) ==
    /\ chunk.has_reasoning => nreason < MaxReasoning
    /\ ~chunk.has_reasoning => chunk.reasoning = <<" ">>
    /\ ~chunk.has_content => chunk.content = <<>>
    /\ chunk.content = <<>> => idle < MaxIdle

\* the stream advances by one chunk
Deliver(chunk) ==
    /\ last_chunk' = chunk
    /\ rest' = From(rest, Len(chunk.content) + 1)
    /\ idle' = IF chunk.content = <<>> THEN idle + 1 ELSE idle
    /\ nreason' = IF chunk.has_reasoning THEN nreason + 1 ELSE nreason
    /\ UNCHANGED <<worker, model_id, answer>>

\* the locals of the consumer, the state the handler works on, and whether
\* an exception has left the try block
X ==
    [json_started |-> json_started, json_content |-> json_content,
     current_response |-> current_response, current_reasoning |-> current_reasoning,
     reasoning_content |-> reasoning_content, content |-> content,
     calls |-> calls, seed_at |-> seed_at, plain_pos |-> plain_pos,
     bubble_from |-> bubble_from, st |-> St, failed |-> failed]

SetX(x) ==
    /\ json_started' = x.json_started
    /\ json_content' = x.json_content
    /\ current_response' = x.current_response
    /\ current_reasoning' = x.current_reasoning
    /\ reasoning_content' = x.reasoning_content
    /\ content' = x.content
    /\ calls' = x.calls
    /\ seed_at' = x.seed_at
    /\ plain_pos' = x.plain_pos
    /\ bubble_from' = x.bubble_from
    /\ SetSt(x.st)
    /\ failed' = x.failed

\* self.handle_assistant_response(text), text having begun at position from
\* of the final-answer text
Call(x, text, from) ==
    [x EXCEPT !.calls = Append(@, [text |-> text, from |-> from]),
              !.st = handle_assistant_response(@, text)]

\* a variant of FinalToken that falls back on the reasoning delta of a chunk
\* without final-answer text
FinalTokenOrReasoning(chunk) ==
    IF ~chunk.has_content /\ chunk.has_reasoning
    THEN [present |-> TRUE, token |-> chunk.reasoning]
    ELSE [present |-> chunk.has_content, token |-> chunk.content]

\* chunk.choices[0].delta.content and whether it is not None (lines 742, 747)
FinalToken(chunk) == [present |-> chunk.has_content, token |-> chunk.content]

\* lines 723-739 of process_message: the reasoning delta of a chunk.  A
\* MessageBubble has no attribute content_frame, so line 736 raises
\* AttributeError as soon as the reasoning bubble exists.
ReasoningStep(x, model, chunk) ==
    IF model = "deepseek-reasoner" /\ chunk.has_reasoning
    THEN LET x1 == [x EXCEPT !.reasoning_content = @ \o chunk.reasoning]
             x2 == IF x1.current_reasoning = 0 /\ HasVisibleText(chunk.reasoning)
                   THEN [x1 EXCEPT !.st = Display(@, "reasoning", <<>>),
                                   !.current_reasoning = Len(x1.st.messages) + 1]
                   ELSE x1
         IN  IF x2.current_reasoning # 0 THEN [x2 EXCEPT !.failed = TRUE] ELSE x2
    ELSE x

\* a variant of FireAndReset that fires the event and keeps the buffer
FireNoReset(x) == Call(x, x.json_content, x.seed_at)

\* a variant of FireAndReset that fires the event twice
FireTwice(x) ==
    [Call(Call(x, x.json_content, x.seed_at), x.json_content, x.seed_at) EXCEPT
        !.json_started = FALSE, !.json_content = <<>>, !.seed_at = 0]

\* lines 762-765: the buffer parsed; the event fires and the extractor resets
FireAndReset(x) ==
    [Call(x, x.json_content, x.seed_at) EXCEPT
        !.json_started = FALSE, !.json_content = <<>>, !.seed_at = 0]

\* lines 769-778: a token of plain text
PlainStep(x, token, at) ==
    LET x1 == [x EXCEPT !.plain_pos = @ \cup (at..(at + Len(token) - 1))]
        x2 == IF x1.current_response = 0 /\ HasVisibleText(token)
              THEN [x1 EXCEPT !.st = Display(@, "response", <<>>),
                              !.current_response = Len(x1.st.messages) + 1,
                              !.bubble_from = at]
              ELSE x1
    IN  IF x2.current_response # 0
        THEN [x2 EXCEPT !.st.messages[x2.current_response].text = @ \o token]
        ELSE x2

\* a variant of ContentStep that seeds the buffer with all the text received
\* so far instead of the token
ContentStepSeedAll(x, token) ==
    LET at == Len(x.content) + 1
        x1 == [x EXCEPT !.content = @ \o token]
    IN  IF ~x.json_started /\ StartsWithBrace(token)
        THEN [x1 EXCEPT !.json_started = TRUE, !.json_content = x1.content,
                        !.seed_at = at]
        ELSE IF x.json_started
             THEN LET x2 == [x1 EXCEPT !.json_content = @ \o token]
                  IN  IF json_loads(x2.json_content) # JSONDecodeError
                      THEN FireAndReset(x2)
                      ELSE x2
        ELSE PlainStep(x1, token, at)

\* a variant of ContentStep that gives the buffer up when it does not parse
ContentStepGiveUp(x, token) ==
    LET at == Len(x.content) + 1
        x1 == [x EXCEPT !.content = @ \o token]
    IN  IF ~x.json_started /\ StartsWithBrace(token)
        THEN [x1 EXCEPT !.json_started = TRUE, !.json_content = token, !.seed_at = at]
        ELSE IF x.json_started
             THEN LET x2 == [x1 EXCEPT !.json_content = @ \o token]
                  IN  IF json_loads(x2.json_content) # JSONDecodeError
                      THEN FireAndReset(x2)
                      ELSE [x2 EXCEPT !.json_started = FALSE, !.json_content = <<>>,
                                      !.seed_at = 0]
        ELSE PlainStep(x1, token, at)

\* lines 747-778 of process_message: one final-answer token
ContentStep(x, token) ==
    LET at == Len(x.content) + 1
        x1 == [x EXCEPT !.content = @ \o token]
    IN  IF ~x.json_started /\ StartsWithBrace(token)
        THEN [x1 EXCEPT !.json_started = TRUE, !.json_content = token, !.seed_at = at]
        ELSE IF x.json_started
             THEN LET x2 == [x1 EXCEPT !.json_content = @ \o token]
                  IN  IF json_loads(x2.json_content) # JSONDecodeError
                      THEN FireAndReset(x2)
                      ELSE x2
        ELSE PlainStep(x1, token, at)

\* lines 796-798 and 1069-1070: the except clause of the worker
OnException(x) == [x EXCEPT !.st = Display(@, "Error", <<>>)]

\* lines 742-778, or the except clause when the reasoning delta has raised
FinalStep(x, ft) ==
    IF x.failed THEN OnException(x)
    ELSE IF ft.present THEN ContentStep(x, ft.token)
    ELSE x

\* the loop of process_message goes on unless an exception has left it
Resume(x) ==
    /\ SetX(x)
    /\ pm_pc' = IF x.failed THEN "done" ELSE "stream"

\* a variant of FinalParse that drops the buffer at the end of the stream
FinalParseSilent(x) == x

\* lines 786-791 of process_message: the end of the stream
FinalParse(x) ==
    IF x.json_started /\ x.json_content # <<>>
    THEN Call(x, x.json_content, x.seed_at)
    ELSE x

\* lines 1065-1067 of _process_completion: the end of the stream
HandleWhole(x) ==
    IF x.content # <<>> THEN Call(x, x.content, 1) ELSE x

Init ==
    /\ fs = EmptyFs
    /\ messages = <<>>
    /\ oplog = <<>>
    /\ HarIdle
    /\ EditIdle
    /\ worker \in {"process_message", "_process_completion"}
    /\ model_id \in Models
    /\ answer \in AnswerTexts
    /\ rest = answer
    /\ idle = 0
    /\ nreason = 0
    /\ last_chunk = NoChunk
    /\ ExtractorStart
    /\ pm_pc = "stream"
    /\ failed = FALSE
    /\ AppIdle

\* lines 721-778: process_message consumes one chunk
PMChunk ==
    /\ worker = "process_message"
    /\ pm_pc = "stream"
    /\ \E chunk \in NextChunks :
          /\ Admitted(chunk)
          /\ Deliver(chunk)
          /\ Resume(FinalStep(ReasoningStep(X, model_id, chunk), FinalToken(chunk)))
    /\ UNCHANGED <<harVars, editVars, appVars>>

\* lines 780-794: the stream of process_message ends
PMEnd ==
    /\ worker = "process_message"
    /\ pm_pc = "stream"
    /\ rest = <<>>
    /\ SetX(FinalParse(X))
    /\ pm_pc' = "done"
    /\ UNCHANGED <<streamVars, harVars, editVars, appVars>>

\* lines 1036-1059: _process_completion consumes one chunk
PCChunk ==
    /\ worker = "_process_completion"
    /\ pm_pc = "stream"
    /\ \E chunk \in NextChunks :
          /\ Admitted(chunk)
          /\ Deliver(chunk)
          /\ LET ft == FinalToken(chunk)
                 x1 == IF chunk.has_reasoning /\ chunk.reasoning # <<>>
                       THEN LET b == IF current_reasoning = 0
                                     THEN [X EXCEPT
                                             !.st = Display(@, "reasoning", <<>>),
                                             !.current_reasoning = Len(messages) + 1]
                                     ELSE X
                                t == reasoning_content \o chunk.reasoning
                            IN  [b EXCEPT !.reasoning_content = t,
                                          !.st.messages[b.current_reasoning].text = t]
                       ELSE X
                 x2 == IF ft.present /\ ft.token # <<>>
                       THEN [x1 EXCEPT !.content = @ \o ft.token]
                       ELSE x1
             IN  SetX(x2)
    /\ UNCHANGED <<pm_pc, harVars, editVars, appVars>>

\* lines 1061-1067: the stream of _process_completion ends
PCEnd ==
    /\ worker = "_process_completion"
    /\ pm_pc = "stream"
    /\ rest = <<>>
    /\ SetX(HandleWhole(X))
    /\ pm_pc' = "done"
    /\ UNCHANGED <<streamVars, harVars, editVars, appVars>>

Next == PMChunk \/ PMEnd \/ PCChunk \/ PCEnd

Spec == Init /\ [][Next]_vars

(***************************************************************************)
(* Claims about handle_assistant_response (SpecExec)                       *)
(***************************************************************************)

\* the path a create operation writes to (lines 855-856)
WrittenPath(file) == IF isabs(file.path) THEN relpath(file.path) ELSE file.path

RECURSIVE FsAfterCreates(_, _)
\* the file system after the create operations of a list, in list order
FsAfterCreates(f, creates) ==
    IF creates = <<>> THEN f
    ELSE FsAfterCreates(
             create_file(f, WrittenPath(Head(creates)), Head(creates).content).fs,
             Tail(creates))

RECURSIVE FsAfterEdits(_, _)
\* the file system after the edit operations of a list, in list order
FsAfterEdits(f, edits) ==
    IF edits = <<>> THEN f
    ELSE FsAfterEdits(
             apply_diff_edit(f, Head(edits).path, Head(edits).original_snippet,
                             Head(edits).new_snippet).fs,
             Tail(edits))

NCreates == Len(response.files_to_create)
NEdits == Len(response.files_to_edit)

\* C7: for a validated payload the reply is displayed before any file is
\* touched, the k operations attempted so far are the first k of "all
\* creates in list order, then all edits in list order", and the file system
\* is the one these k operations leave when each works on the result of the
\* ones before it.
C7_Order ==
    /\ (oplog # <<>> \/ fs # fs0) =>
          /\ response.ok
          /\ messages # <<>>
          /\ messages[1] = Msg("reply", response.assistant_reply)
    /\ response.ok =>
          LET k == Len(oplog)
              kc == IF k <= NCreates THEN k ELSE NCreates
          IN  /\ k <= NCreates + NEdits
              /\ \A i \in 1..k :
                    IF i <= NCreates
                    THEN /\ oplog[i].op = "create"
                         /\ oplog[i].path = WrittenPath(response.files_to_create[i])
                    ELSE /\ oplog[i].op = "edit"
                         /\ oplog[i].path = response.files_to_edit[i - NCreates].path
              /\ fs = FsAfterEdits(
                        FsAfterCreates(fs0, SubSeq(response.files_to_create, 1, kc)),
                        SubSeq(response.files_to_edit, 1, k - kc))

\* C7 witness: the handler has returned after a create of x and two edits of
\* x, the first edit applied to the created content and the second to the
\* result of the first.
C7_Witness ==
    /\ har_pc = "done"
    /\ P_x \notin DOMAIN fs0.files
    /\ P_x \in DOMAIN fs.files
    /\ fs.files[P_x] = <<"c", "b", "a">>
    /\ Len(oplog) = 3

\* C8: when the handler returns from a validated payload with n creates and
\* m edits, all n+m operations have been attempted, whichever of them
\* failed, and each has its own message after the reply.
C8_AllAttempted ==
    (har_pc = "done" /\ response.ok) =>
        /\ Len(oplog) = NCreates + NEdits
        /\ Len(messages) = 1 + NCreates + NEdits
        /\ \A i \in 1..Len(oplog) :
              /\ messages[i + 1].text = oplog[i].path
              /\ oplog[i].exc # "" =>
                    messages[i + 1].kind \in {"Error creating file", "Error editing file"}

\* C8 witness: the handler has returned; a create failed, an edit failed
\* with an exception or found nothing to edit, and each was followed by a
\* later operation.
C8_Witness ==
    /\ har_pc = "done"
    /\ response.ok
    /\ \E i \in 1..Len(oplog), j \in 1..Len(oplog) :
          /\ i < j /\ j < Len(oplog)
          /\ oplog[i].op = "create" /\ oplog[i].exc # ""
          /\ oplog[j].op = "edit"
          /\ (oplog[j].exc # "" \/ oplog[j].result # "Applied diff edit")

(***************************************************************************)
(* Claims about apply_diff_edit (SpecEdit)                                 *)
(***************************************************************************)

RECURSIVE Count(_, _)
\* text.count(snippet) for a non-empty snippet: occurrences from left to
\* right, not overlapping
Count(text, snippet) ==
    IF ~Contains(text, snippet) THEN 0
    ELSE 1 + Count(From(text, Find(text, snippet) + Len(snippet)), snippet)

\* the call found the file and the snippet in it, and wrote the file
EditApplied ==
    /\ edit_call.made
    /\ edit_call.path \in DOMAIN edit_call.before.files
    /\ Contains(edit_call.before.files[edit_call.path], edit_call.original_snippet)
    /\ edit_call.exc = ""

\* C9: when the content holds original_snippet, the text before its first
\* occurrence is kept, new_snippet stands in the place of that occurrence,
\* and the text after it is kept as it was, later occurrences included.
C9_FirstOnly ==
    EditApplied =>
        LET old == edit_call.before.files[edit_call.path]
            new == fs.files[edit_call.path]
            o == edit_call.original_snippet
            n == edit_call.new_snippet
            first == CHOOSE i \in 1..(Len(old) + 1) :
                        /\ HasPrefixAt(old, i, o)
                        /\ \A j \in 1..(i - 1) : ~HasPrefixAt(old, j, o)
        IN  /\ edit_call.result = "Applied diff edit"
            /\ Len(new) = Len(old) - Len(o) + Len(n)
            /\ SubSeq(new, 1, first - 1) = SubSeq(old, 1, first - 1)
            /\ HasPrefixAt(new, first, n)
            /\ From(new, first + Len(n)) = From(old, first + Len(o))
            /\ o # <<>> =>
                  Count(From(new, first + Len(n)), o) = Count(old, o) - 1

\* C9 witness: a file with exactly two occurrences of the snippet was edited
\* and its content changed.
C9_Witness ==
    /\ EditApplied
    /\ edit_call.original_snippet # <<>>
    /\ Count(edit_call.before.files[edit_call.path], edit_call.original_snippet) = 2
    /\ fs.files[edit_call.path] # edit_call.before.files[edit_call.path]

C11_NotificationMatches ==
    response.ok =>
        \A i \in 1..Len(oplog) :
            (/\ oplog[i].op = "edit"
             /\ i + 1 <= Len(messages)
             /\ messages[i + 1].kind = "Updated file")
            => oplog[i].result = "Applied diff edit"

\* C12: when create_file returns, every ancestor of path is a directory,
\* reading path gives exactly content whatever the file held before, and
\* every other file and every directory that existed is as it was; the
\* directories added are ancestors of path.
C12_CreateFile ==
    (create_call.made /\ create_call.exc = "") =>
        /\ Ancestors(create_call.path) \subseteq fs.dirs
        /\ ~FileNotFound(fs, create_call.path)
        /\ read_local_file(fs, create_call.path) = create_call.content
        /\ DOMAIN fs.files = DOMAIN create_call.before.files \cup {create_call.path}
        /\ \A q \in DOMAIN create_call.before.files \ {create_call.path} :
              fs.files[q] = create_call.before.files[q]
        /\ create_call.before.dirs \subseteq fs.dirs
        /\ fs.dirs \ create_call.before.dirs \subseteq Ancestors(create_call.path)
        /\ WellFormed(fs)

\* C12 witness: a/b/c was created where neither a nor a/b existed, next to a
\* file x that kept its content.
C12_Witness ==
    /\ create_call.made /\ create_call.exc = ""
    /\ create_call.path = P_abc
    /\ create_call.content = <<"b">>
    /\ create_call.before.dirs = {}
    /\ create_call.before.files = (P_x :> <<"a">>)
    /\ fs.dirs = {P_a, P_ab}
    /\ fs.files[P_abc] = <<"b">>
    /\ fs.files[P_x] = <<"a">>

\* the reply of the last balance query and what get_api_balance made of it
Reply == balance_call.reply
Out == balance_call.out

\* the balance field of the body, when the body is a JSON object
BalanceValue == Get(json_loads(Reply.body), K_balance)

\* the body is a JSON object with a balance field that float() converts
NumericBalance ==
    /\ json_loads(Reply.body).t = "obj"
    /\ Has(json_loads(Reply.body), K_balance)
    /\ FloatOf(BalanceValue).exc = ""

\* the body is a JSON object without a balance field
NoBalanceField ==
    json_loads(Reply.body).t = "obj" /\ ~Has(json_loads(Reply.body), K_balance)

\* the request came back with a response whose status is no 4xx or 5xx
Answered == Reply.transport = "ok" /\ ~(Reply.status >= 400 /\ Reply.status < 600)

\* C13: get_api_balance never raises.  It returns the balance exactly when
\* the request came back with a status that is no 4xx or 5xx and a JSON
\* object whose balance field float() converts, and logs nothing then; in
\* every other case (no connection, timeout, status 4xx or 5xx, body that
\* is no JSON or no object, balance missing or not convertible) it returns
\* 0.0, and it logs an error except when only the balance field is missing.
C13_Balance ==
    balance_call.made =>
        /\ ~Out.raised
        /\ IF Answered /\ NumericBalance
           THEN Out.tenths = FloatOf(BalanceValue).tenths /\ Out.logged = ""
           ELSE /\ Out.tenths = 0
                /\ Out.logged = "" <=> (Answered /\ NoBalanceField)

\* C13 witness: the query came back with HTTP 500 and a body that names a
\* balance; 0.0 was returned and the failure of the request logged.
C13_Witness ==
    /\ balance_call.made
    /\ Reply.status = 500
    /\ Reply.body = BalanceField(<<"7">>)
    /\ Out = Returned(0, "API request failed")

\* C13 as stated: every response with a status outside 2xx gives 0.0.
C13_NonSuccessIsZero ==
    (/\ balance_call.made
     /\ Reply.transport = "ok"
     /\ (Reply.status < 200 \/ Reply.status >= 300))
    => Out.tenths = 0

\* C14: when the handler has returned for a valid payload without edit
\* operations whose create operations all succeeded, the messages shown are
\* the reply followed by one create notification per file, in list order,
\* and nothing else; with no create operation either, the reply alone.
C14_Messages ==
    (/\ har_pc = "done"
     /\ response.ok
     /\ NEdits = 0
     /\ \A i \in 1..Len(oplog) : oplog[i].exc = "")
    => messages =
          <<Msg("reply", response.assistant_reply)>>
          \o [i \in 1..NCreates |->
                 Msg("Created file", WrittenPath(response.files_to_create[i]))]

\* C14 witness: two files were created and three messages shown.
C14_Witness ==
    /\ har_pc = "done"
    /\ response.ok
    /\ NEdits = 0
    /\ NCreates = 2
    /\ \A i \in 1..Len(oplog) : oplog[i].exc = ""
    /\ Len(messages) = 3
    /\ messages[3].kind = "Created file"

\* C23: a create operation whose path is absolute is run on
\* os.path.relpath of that path, so create_file is never called with an
\* absolute path; a relative path is passed on as it is; the path of an
\* edit operation is passed on as it is, absolute or not.
C23_RelativeCreates ==
    response.ok =>
        \A i \in 1..Len(oplog) :
            IF oplog[i].op = "create"
            THEN /\ ~isabs(oplog[i].path)
                 /\ isabs(response.files_to_create[i].path) =>
                        oplog[i].path = relpath(response.files_to_create[i].path)
                 /\ ~isabs(response.files_to_create[i].path) =>
                        oplog[i].path = response.files_to_create[i].path
            ELSE oplog[i].path = response.files_to_edit[i - NCreates].path

\* C23 witness: the handler has returned after a create of /q, run on ../q,
\* and an edit of /r, run on /r.
C23_Witness ==
    /\ har_pc = "done"
    /\ Len(oplog) = 2
    /\ response.files_to_create[1].path = <<"/", "q">>
    /\ oplog[1] = [op |-> "create", path |-> <<".", ".", "/", "q">>,
                   result |-> "", exc |-> ""]
    /\ oplog[2].op = "edit"
    /\ oplog[2].path = <<"/", "r">>

\* the messages shown once the first step of the handler is over, for a
\* text that is no JSON or fails validation
ErrorShown ==
    IF json_loads(response_text) = JSONDecodeError
    THEN <<Msg("Error parsing assistant response", <<>>)>>
    ELSE <<Msg("Unexpected error", <<>>)>>

StatedItems(obj, key) ==
    IF ~Has(obj, key) \/ Get(obj, key) = Val("lit", <<"n","u","l","l">>, <<>>)
    THEN <<>>
    ELSE IF Get(obj, key).t = "obj" THEN <<Get(obj, key)>>
    ELSE Get(obj, key).items

\* a rejected text or payload shows its error message and touches nothing
C29_Rejected ==
    (har_pc \in {"files", "done"} /\ ~response.ok) =>
        /\ messages = ErrorShown
        /\ oplog = <<>>
        /\ fs = fs0

\* C29: validation is all-or-nothing and precedes every side effect: for a
\* text that is no JSON or a payload with an item or reply that fails
\* validation, nothing but the error message is displayed and no file is
\* touched; an absent or null files_to_create or files_to_edit counts as an
\* empty list and a single object as a list of that one object, so a payload
\* that validates has one operation per item so read.
C29_AllOrNothing ==
    /\ C29_Rejected
    /\ (har_pc \in {"files", "done"} /\ response.ok) =>
          /\ NCreates = Len(StatedItems(json_loads(response_text), K_files_to_create))
          /\ NEdits = Len(StatedItems(json_loads(response_text), K_files_to_edit))
          /\ messages[1] = Msg("reply", response.assistant_reply)

(***************************************************************************)
(* Claims about the store (SpecDb)                                         *)
(***************************************************************************)

IsPrefix(a, b) == Len(a) <= Len(b) /\ SubSeq(b, 1, Len(a)) = a

C21_Step ==
    /\ IsPrefix(chat_history, chat_history')
    /\ IsPrefix(api_usage, api_usage')
    /\ IsPrefix(thinking_time, thinking_time')

\* the result of the call lists the rows of the table read that carry the
\* conversation id asked for, each once, by ascending timestamp
C21_Result ==
    history_call.made =>
        LET t == history_call.table
            r == history_call.result
            hits == {i \in DOMAIN t : t[i].conversation_id = history_call.conversation_id}
        IN  /\ Len(r) = Cardinality(hits)
            /\ \E f \in [DOMAIN r -> hits] :
                  /\ \A i, j \in DOMAIN r : f[i] = f[j] => i = j
                  /\ \A k \in DOMAIN r :
                        /\ r[k].role = t[f[k]].role
                        /\ r[k].content = t[f[k]].content
                        /\ r[k].is_reasoning = (t[f[k]].is_reasoning = 1)
                  /\ \A k \in 1..(Len(r) - 1) :
                        t[f[k]].timestamp <= t[f[k + 1]].timestamp

\* C21: the store is append-only and keyed by conversation: no call changes
\* or removes a row already written, and get_chat_history(c) returns exactly
\* the messages added under conversation id c, each with its role, content
\* and is_reasoning flag, by ascending timestamp.
C21_AppendOnly == [][C21_Step]_vars /\ [](C21_Result)

\* a query for conversation 1 on a table that also holds a row of
\* conversation 2, and whose later row of conversation 1 bears the earlier
\* timestamp: it is returned first
C21_Witness ==
    /\ history_call.made
    /\ history_call.conversation_id = 1
    /\ Len(history_call.table) = 3
    /\ history_call.table[1].conversation_id = 1
    /\ history_call.table[2].conversation_id = 2
    /\ history_call.table[3].conversation_id = 1
    /\ history_call.table[1].timestamp > history_call.table[3].timestamp
    /\ history_call.table[1].role = "assistant"
    /\ history_call.table[1].is_reasoning = 1
    /\ history_call.result = <<[role |-> "user", content |-> <<"a">>,
                                is_reasoning |-> FALSE],
                               [role |-> "assistant", content |-> <<"a">>,
                                is_reasoning |-> TRUE]>>

(***************************************************************************)
(* Claims about the running application (SpecApp)                          *)
(***************************************************************************)

\* C15: no widget or UI-owned state is mutated by a worker thread: every
\* widget creation or configure call made for a streaming delta, for the end
\* of a completion or for a balance refresh runs on the UI thread.
C15_UiThreadOnly == \A e \in ui_touch : e.thread = "ui"

Outstanding == {w \in DOMAIN workers : workers[w].pc # "done"}

\* C16: from the dispatch of a completion worker until its finally block has
\* run, the input field and the send button are disabled, so at most one
\* completion worker is outstanding.
C16_DisabledWhileOutstanding ==
    /\ Outstanding # {} => input_state = "disabled" /\ button_state = "disabled"
    /\ Cardinality(Outstanding) <= 1

StreamOver(w) == w \in DOMAIN workers /\ workers[w].pc \in {"handle", "except", "finally"}

Done(w) == w \in DOMAIN workers /\ workers[w].pc = "done"

ErrorBubble == [is_user |-> FALSE, is_reasoning |-> FALSE]

\* C17: after a dispatched send whose stream is over, normally or by an
\* exception in the request or in the handling of the response, the worker
\* reaches the end of its finally block, and that step sets the input field
\* and the send button to normal; an exception is caught in the worker: an
\* error bubble is appended and the worker goes on to its finally block.
C17_Reenabled ==
    /\ \A w \in 1..MaxSends : StreamOver(w) ~> Done(w)
    /\ [][\A w \in DOMAIN workers :
            /\ (workers[w].pc # "done" /\ workers'[w].pc = "done")
                  => /\ workers[w].pc = "finally"
                     /\ input_state' = "normal"
                     /\ button_state' = "normal"
            /\ (workers[w].pc = "except" /\ workers'[w].pc # "except")
                  => /\ workers'[w].pc = "finally"
                     /\ message_widgets' = Append(message_widgets, ErrorBubble)]_vars

\* a send whose request raised: the worker is done, the controls are normal
\* and the error bubble follows the user's message
C17_Witness ==
    /\ Done(1)
    /\ api_usage = <<>>
    /\ input_state = "normal"
    /\ button_state = "normal"
    /\ message_widgets = <<[is_user |-> TRUE, is_reasoning |-> FALSE], ErrorBubble>>

\* C18: the poll loop never ends; after any poll, failed or not, it sleeps
\* and polls again, so a poll completes infinitely often.
C18_PollForever ==
    /\ [](poll_pc \in {"poll", "sleep"})
    /\ []<>(poll_pc = "sleep")
    /\ []<>(poll_pc = "poll")

\* the loop is about to poll again after a poll that failed (the balance
\* shown fell back to 0.0) and touched the label from the poll thread
C18_Witness ==
    /\ workers = <<>>
    /\ poll_pc = "poll"
    /\ api_balance = 0
    /\ [widget |-> "labels", thread |-> "poll"] \in ui_touch

SavedIds == {conversations[i].id : i \in DOMAIN conversations}

C19_Step ==
    /\ (conversation_id' # conversation_id)
          => /\ conversations' = Append(conversations, [id |-> conversation_id])
             /\ conversation_id' \notin SavedIds \cup {conversation_id}
    /\ (conversations' # conversations) => (conversation_id' # conversation_id)

RowsOfCurrent == {i \in DOMAIN chat_history : chat_history[i].conversation_id = conversation_id}

ShownAndStored == Cardinality(RowsOfCurrent) = Len(message_widgets)

\* C20: every sample is persisted: each message shown through
\* append_to_conversation has its chat_history row, each completion request
\* its api_usage row, and each thinking duration measured when a reasoning
\* bubble stops its timer has its thinking_time row.
C20_AllPersisted ==
    /\ ShownAndStored
    /\ Len(api_usage) <= Len(workers)
    /\ Len(thinking_time) = thinking_measured

\* a step of start_new_chat leaves one system entry, no message widget and a
\* total thinking time of zero
C22_Step ==
    (conversation_id' # conversation_id) =>
        /\ conversation_history' = <<"system">>
        /\ current_conversation_name' = NewChat
        /\ message_widgets' = <<>>
        /\ total_thinking_time' = 0

\* C22: after initialization and after every start_new_chat the
\* conversation history is one system entry and the conversation is named
\* "New Chat"; the history is never empty and always begins with the system
\* entry; start_new_chat also empties message_widgets and sets
\* total_thinking_time to zero.
C22_SystemFirst ==
    /\ conversation_history = <<"system">>
    /\ current_conversation_name = NewChat
    /\ [](conversation_history # <<>> /\ conversation_history[1] = "system")
    /\ [][C22_Step]_vars

\* a new chat started after a message was sent and a thinking time measured
C22_Witness ==
    /\ Len(conversations) = 1
    /\ thinking_measured = 1
    /\ chat_history # <<>>
    /\ conversation_history = <<"system">>
    /\ message_widgets = <<>>
    /\ total_thinking_time = 0

\* the rows a step of worker w appends carry the identifier of the
\* conversation the worker was dispatched in
C27_Step ==
    \A w \in DOMAIN workers :
        workers'[w] # workers[w] =>
            /\ Len(api_usage') > Len(api_usage) =>
                  api_usage'[Len(api_usage')].conversation_id = workers[w].sent_in
            /\ Len(chat_history') > Len(chat_history) =>
                  chat_history'[Len(chat_history')].conversation_id = workers[w].sent_in

\* C27: every record persisted while handling the response to a send (the
\* api_usage row, the reasoning bubble, the reply or error message) carries
\* the conversation identifier that was current when send_message dispatched
\* the request, also when start_new_chat runs while the request is
\* outstanding.
C27_DispatchId == [][C27_Step]_vars

\* the step in which a worker whose stream ended without error has handled
\* the response leaves an assistant entry at the end of the history
C28_Step ==
    \A w \in DOMAIN workers :
        (workers[w].pc = "handle" /\ workers'[w].pc = "finally") =>
            conversation_history'[Len(conversation_history')] = "assistant"

\* C28: after a send whose stream completed without error,
\* conversation_history ends with an entry of role assistant holding the
\* final answer.
C28_AssistantRecorded == [][C28_Step]_vars

(***************************************************************************)
(* Claims about the streamed completion (Spec)                             *)
(***************************************************************************)

InPM == worker = "process_message"
InPC == worker = "_process_completion"

\* a step that consumes a chunk of the stream
ChunkStep == rest' # rest \/ idle' # idle \/ nreason' # nreason

\* the step of process_message that follows the last chunk (lines 780-794)
EndStep == InPM /\ pm_pc = "stream" /\ pm_pc' = "done" /\ ~ChunkStep

\* the arguments of the calls of handle_assistant_response, in order
CallTexts == [i \in 1..Len(calls) |-> calls[i].text]

\* how many messages of a kind the conversation shows
NumberOf(kind) == Cardinality({i \in 1..Len(messages) : messages[i].kind = kind})

ParseError == Msg("Error parsing assistant response", <<>>)

\* C1: when process_message has consumed {"assistant_reply":"x"}, in any
\* split into tokens, handle_assistant_response has been called exactly once
\* and with that string; before the end it has been called at most once.
C1_OneCall ==
    (InPM /\ answer = Target) =>
        /\ Len(calls) <= 1
        /\ \A i \in 1..Len(calls) : calls[i].text = Target
        /\ (pm_pc = "done" /\ ~failed) => Len(calls) = 1

\* C1 witness: the string arrived in more than two tokens, the last of them
\* the closing brace, and the stream has ended.
C1_Witness ==
    /\ InPM /\ answer = Target
    /\ pm_pc = "done" /\ ~failed
    /\ last_chunk.content = <<"}">>
    /\ calls = <<[text |-> Target, from |-> 1]>>
    /\ messages = <<Msg("reply", <<"x">>)>>

RECURSIVE ObjectsFrom(_, _)
\* the texts of the complete top-level JSON objects of text at or after
\* position i, found by a scan from left to right
ObjectsFrom(text, i) ==
    IF i > Len(text) THEN <<>>
    ELSE IF text[i] = "{" /\ ParseValue(text, i).ok
         THEN <<SubSeq(text, i, ParseValue(text, i).pos - 1)>>
              \o ObjectsFrom(text, ParseValue(text, i).pos)
    ELSE ObjectsFrom(text, i + 1)

TopLevelObjects(text) == ObjectsFrom(text, 1)

\* C2: when the stream of process_message has ended, the calls of
\* handle_assistant_response are one per complete top-level JSON object of
\* the concatenated final-answer text, in order, each with the object's text.
C2_OnePerObject ==
    (InPM /\ pm_pc = "done" /\ ~failed) => CallTexts = TopLevelObjects(answer)

RECURSIVE Pick(_, _, _)
\* the characters of text at the positions of a set, from position i on
Pick(text, positions, i) ==
    IF i > Len(text) THEN <<>>
    ELSE (IF i \in positions THEN <<text[i]>> ELSE <<>>) \o Pick(text, positions, i + 1)

\* the positions of content a call of handle_assistant_response was given
CallRange(call) == call.from .. (call.from + Len(call.text) - 1)

C3_State ==
    InPM =>
        /\ IF json_started
           THEN /\ seed_at >= 1
                /\ json_content = From(content, seed_at)
                /\ \A p \in plain_pos : p < seed_at
           ELSE json_content = <<>>
        /\ \A i \in 1..Len(calls) :
              /\ calls[i].text = SubSeq(content, calls[i].from,
                                        calls[i].from + Len(calls[i].text) - 1)
              /\ plain_pos \cap CallRange(calls[i]) = {}
        /\ NumberOf("response") <= 1
        /\ IF current_response # 0
           THEN messages[current_response] =
                    Msg("response",
                        Pick(content, {p \in plain_pos : p >= bubble_from}, 1))
           ELSE /\ NumberOf("response") = 0
                /\ \A p \in plain_pos : content[p] \in WS

C3_Step ==
    (/\ InPM /\ ChunkStep /\ ~failed'
     /\ last_chunk'.has_content
     /\ ~json_started
     /\ ~StartsWithBrace(last_chunk'.content))
    => /\ content' = content \o last_chunk'.content
       /\ plain_pos' = plain_pos \cup ((Len(content) + 1)..Len(content'))
       /\ UNCHANGED <<json_started, json_content, calls>>

\* C3: a final-answer token that arrives while json_started is false and
\* does not begin with '{' goes to the plain text: the buffer stays empty
\* and no call is made.  The buffer is at all times the text received from
\* the seeding token on, which no plain token precedes in it, no call is
\* given a plain token, and the response bubble shows the plain tokens from
\* the first visible one on (blank ones before it are shown nowhere).
C3_PlainNeverBuffered == []C3_State /\ [][C3_Step]_vars

\* C3 witness: prose was shown in the bubble, then a token beginning with
\* '{' seeded the buffer, which holds none of the prose.
C3_Witness ==
    /\ InPM /\ json_started
    /\ content = <<"o", "k", " ", "{">>
    /\ plain_pos = 1..3
    /\ json_content = <<"{">>
    /\ current_response # 0
    /\ messages[current_response].text = <<"o", "k", " ">>

C4_End ==
    (EndStep /\ json_started /\ json_content # <<>>)
    => /\ calls' = Append(calls, [text |-> json_content, from |-> seed_at])
       /\ Len(messages') > Len(messages)
       /\ SubSeq(messages', 1, Len(messages)) = messages
       /\ IF json_loads(json_content) = JSONDecodeError
          THEN /\ messages' = Append(messages, ParseError)
               /\ fs' = fs
          ELSE /\ messages'[Len(messages) + 1].kind \in {"reply", "Unexpected error"}
               /\ <<fs', messages', oplog'>> =
                     <<HandleData(St, json_loads(json_content)).fs,
                       HandleData(St, json_loads(json_content)).messages,
                       HandleData(St, json_loads(json_content)).oplog>>

C4_Idle ==
    (EndStep /\ ~(json_started /\ json_content # <<>>))
    => UNCHANGED <<calls, messages, fs>>

\* C4: the step that ends the stream of process_message hands a non-empty
\* buffer of a started object to handle_assistant_response exactly once; a
\* buffer that does not parse adds a parse-error message to the
\* conversation, one that parses is handled as a payload (reply or
\* validation error first, then its file operations); with no buffer left
\* the step calls and shows nothing.
C4_FinalParse == [][C4_End /\ C4_Idle]_vars

\* C4 witness: the stream ended inside an object that never closed, and the
\* conversation ends with the parse error.
C4_Witness ==
    /\ InPM /\ pm_pc = "done" /\ ~failed
    /\ json_started
    /\ json_loads(json_content) = JSONDecodeError
    /\ calls # <<>>
    /\ calls[Len(calls)].text = json_content
    /\ messages[Len(messages)] = ParseError

C5_Absorb ==
    (/\ InPM /\ ChunkStep /\ ~failed'
     /\ json_started
     /\ last_chunk'.has_content
     /\ json_loads(json_content \o last_chunk'.content) = JSONDecodeError)
    => /\ json_started'
       /\ json_content' = json_content \o last_chunk'.content
       /\ UNCHANGED <<plain_pos, messages, calls, seed_at>>

C5_AtEnd ==
    (/\ InPM /\ pm_pc = "done" /\ ~failed
     /\ json_started
     /\ json_loads(json_content) = JSONDecodeError)
    => /\ json_content = From(content, seed_at)
       /\ NumberOf("Error parsing assistant response") = 1
       /\ messages[Len(messages)] = ParseError

\* C5: while the buffer of a started object does not parse, every
\* final-answer token is appended to it and nothing is shown or called;
\* when the stream ends in that state the buffer is all the text received
\* from the seeding token on, and the conversation ends with the one parse
\* error of the run.
C5_StrayBrace == []C5_AtEnd /\ [][C5_Absorb]_vars

\* C5 witness: "a { b" arrived as the tokens "a ", "{", " ", "b"; the buffer
\* took everything after the prose and the run ended with the parse error.
C5_Witness ==
    /\ InPM /\ pm_pc = "done" /\ ~failed
    /\ answer = <<"a", " ", "{", " ", "b">>
    /\ seed_at = 3
    /\ json_content = <<"{", " ", "b">>
    /\ last_chunk.content = <<"b">>
    /\ plain_pos = 1..2
    /\ NumberOf("Error parsing assistant response") = 1

C6_State ==
    /\ InPM => \A i \in 1..Len(calls) :
                  calls[i].text = SubSeq(answer, calls[i].from,
                                         calls[i].from + Len(calls[i].text) - 1)
    /\ InPC => /\ content \o rest = answer
               /\ calls = IF pm_pc = "done" /\ answer # <<>>
                          THEN <<[text |-> answer, from |-> 1]>>
                          ELSE <<>>

C6_Step ==
    (InPM /\ ChunkStep)
    => IF failed' \/ ~last_chunk'.has_content
       THEN UNCHANGED <<json_started, json_content, calls>>
       ELSE /\ json_started' = ContentStep(X, last_chunk'.content).json_started
            /\ json_content' = ContentStep(X, last_chunk'.content).json_content
            /\ calls' = ContentStep(X, last_chunk'.content).calls

\* C6: in process_message a chunk without final-answer text, whatever its
\* reasoning delta, leaves json_started, json_content and the calls as they
\* were, and a chunk with final-answer text changes them as its token alone
\* does; every call is given final-answer text only.  In
\* _process_completion the one call, made at the end of the stream, is given
\* the final-answer text and nothing of the reasoning.
C6_ReasoningIgnored == []C6_State /\ [][C6_Step]_vars

\* C6 witness: with the reasoning model selected and an object under way, a
\* chunk brought the reasoning delta {"z":1} and no final-answer text; the
\* buffer and the calls are what they were.
C6_Witness ==
    /\ InPM /\ model_id = "deepseek-reasoner"
    /\ last_chunk.has_reasoning /\ last_chunk.reasoning = ObjZ
    /\ ~last_chunk.has_content
    /\ json_started
    /\ json_content = <<"{">>
    /\ reasoning_content = ObjZ
    /\ calls = <<>>

\* C25: every run of process_message appends at least one message to the
\* conversation, whatever the stream delivers.
C25_AtLeastOneMessage ==
    (InPM /\ pm_pc = "done") => messages # <<>>

\* a token arrives while an object is under way: the buffer takes it and is
\* parsed; a failure changes nothing else, a success fires the event once
\* with the buffer and resets the extractor
C26_Token ==
    (/\ InPM /\ ChunkStep /\ ~failed'
     /\ json_started
     /\ last_chunk'.has_content)
    => IF json_loads(json_content \o last_chunk'.content) = JSONDecodeError
       THEN /\ json_started'
            /\ json_content' = json_content \o last_chunk'.content
            /\ calls' = calls
            /\ messages' = messages
       ELSE /\ ~json_started'
            /\ json_content' = <<>>
            /\ calls' = Append(calls, [text |-> json_content \o last_chunk'.content,
                                       from |-> seed_at])

\* json_started is cleared only by a step that fires the event
C26_Cleared ==
    (InPM /\ json_started /\ ~json_started') => Len(calls') = Len(calls) + 1

\* C26: in process_message, while json_started is true, every final-answer
\* token is appended to json_content and the buffer is parsed; when the
\* parse fails nothing is displayed, no event fires, json_started stays true
\* and the buffer is kept; when it succeeds handle_assistant_response is
\* called exactly once with the buffer, json_started becomes false and
\* json_content empty; json_started is never cleared without an event.
C26_ParseEachToken == [][C26_Token /\ C26_Cleared]_vars

\* C26 witness: after the prose "ok " the object {"a":1} arrived in more
\* than one token; its last token completed the buffer, the event fired once
\* and the extractor is reset.
C26_Witness ==
    /\ InPM /\ pm_pc = "stream" /\ ~failed
    /\ answer = <<"o", "k", " ">> \o ObjA
    /\ rest = <<>>
    /\ last_chunk.has_content
    /\ last_chunk.content # <<>>
    /\ Len(last_chunk.content) < Len(ObjA)
    /\ ~json_started
    /\ json_content = <<>>
    /\ calls = <<[text |-> ObjA, from |-> 4]>>

\* C30: for a message sent through send_message whose final answer is prose
\* without a JSON object, the worker displays the answer as an assistant
\* message and no error message, as process_message does with the same
\* tokens.
C30_ProseDisplayed ==
    (InPC /\ pm_pc = "done" /\ answer = <<"h", "i">>) =>
        /\ NumberOf("response") = 1
        /\ \A i \in 1..Len(messages) :
              /\ messages[i].kind \in {"response", "reasoning"}
              /\ messages[i].kind = "response" => messages[i].text = answer

=============================================================================
